---- MODULE Spec2Model ----
(***************************************************************************)
(* A model of the syn parser generator: grammar analysis (FIRST, FOLLOW,   *)
(* verify), the LR(1) automaton and its tables, and the LL(1), LR(1) and   *)
(* LLLR(1) drivers.  Symbols, rules, items and states are identified by    *)
(* the same integer IDs as in the source; a Vec indexed by an ID i is a    *)
(* sequence read at i + 1.                                                 *)
(***************************************************************************)
EXTENDS Integers, Sequences, FiniteSets, TLC

(***************************************************************************)
(* util.rs                                                                 *)
(***************************************************************************)
Range(s) == {s[i] : i \in 1..Len(s)}

Min(S) == CHOOSE x \in S : \A y \in S : x <= y

\* The element of a one-element set: Only({e : r \in {v}}) is e with r
\* bound to v, a let binding whose value v is written and computed once.
Only(S) == CHOOSE x \in S : TRUE

RECURSIVE to_sorted_vec(_)
to_sorted_vec(S) ==
    IF S = {} THEN <<>> ELSE <<Min(S)>> \o to_sorted_vec(S \ {Min(S)})

\* The position of a value in a vector (0-based).
get_index(vec, value) == (CHOOSE i \in 1..Len(vec) : vec[i] = value) - 1

(***************************************************************************)
(* grammar/symbol.rs                                                       *)
(***************************************************************************)
StartId == 0
EndId == 1
NullId == 2

SymStart == [kind |-> "Start", id |-> StartId, name |-> "^"]
SymEnd == [kind |-> "End", id |-> EndId, name |-> "$"]
SymNull == [kind |-> "Null", id |-> NullId, name |-> "eps"]

NonTerminal(id, name) == [kind |-> "NonTerminal", id |-> id, name |-> name]
Terminal(id, name) == [kind |-> "Terminal", id |-> id, name |-> name]

Symbol_internal == <<SymStart, SymEnd, SymNull>>

\* Terminal names of the model hold no quote character.
Symbol_name(s) == IF s.kind = "Terminal" THEN "'" \o s.name \o "'" ELSE s.name

is_terminal(s) == s.kind # "NonTerminal"
is_nonterminal(s) == s.kind = "NonTerminal"
is_internal(s) == s.kind \notin {"NonTerminal", "Terminal"}

(***************************************************************************)
(* grammar/rule.rs                                                         *)
(***************************************************************************)
Rule_new(id, head, body, follow) ==
    [id |-> id, head |-> head, body |-> body, follow |-> follow]

\* The tail of a body from a 0-based index.
Rule_tail(rule, idx) == SubSeq(rule.body, idx + 1, Len(rule.body))

\* Rule equality compares head and body only.
Rule_eq(r1, r2) == r1.head = r2.head /\ r1.body = r2.body

(***************************************************************************)
(* grammar.rs: the Grammar struct                                          *)
(***************************************************************************)
EmptyMap == [x \in {} |-> {}]

symbol_rules_of(rules) ==
    [h \in {rules[i].head : i \in 1..Len(rules)} |->
        SelectSeq([i \in 1..Len(rules) |-> i - 1], LAMBDA id : rules[id + 1].head = h)]

Grammar_new(symbols, rules, start_symbol, actions) ==
    [symbols |-> symbols,
     start_symbol |-> start_symbol,
     rules |-> rules,
     symbol_rules |-> symbol_rules_of(rules),
     actions |-> actions,
     first |-> EmptyMap,
     follow |-> EmptyMap]

Symbol(g, id) == g.symbols[id + 1]
Rule(g, id) == g.rules[id + 1]
\* The rules of a symbol; indexing symbol_rules panics for a symbol without rules.
Rules(g, symbol) == [i \in 1..Len(g.symbol_rules[symbol]) |-> Rule(g, g.symbol_rules[symbol][i])]

Rule_nonterminals(g, rule) ==
    {id \in Range(rule.body) : is_nonterminal(Symbol(g, id))}

(***************************************************************************)
(* grammar/reader.rs: read_file, from the decoded "rules" table.  defs is  *)
(* the list of <<head name, body names>> in the table's key order.         *)
(***************************************************************************)
names_of(symbols) ==
    {symbols[i].name : i \in (Len(Symbol_internal) + 1)..Len(symbols)}

id_of(symbols, name) ==
    (CHOOSE i \in (Len(Symbol_internal) + 1)..Len(symbols) : symbols[i].name = name) - 1

get_symbol(name, isTerminal, symbols) ==
    IF name \in names_of(symbols) THEN symbols
    ELSE Append(symbols, IF isTerminal THEN Terminal(Len(symbols), name)
                         ELSE NonTerminal(Len(symbols), name))

RECURSIVE read_body(_, _, _, _, _)
read_body(names, k, nonterminals, symbols, body) ==
    IF k > Len(names) THEN [symbols |-> symbols, body |-> body]
    ELSE LET syms == get_symbol(names[k], names[k] \notin nonterminals, symbols)
         IN read_body(names, k + 1, nonterminals, syms,
                      Append(body, id_of(syms, names[k])))

RECURSIVE read_rules(_, _, _, _, _)
read_rules(defs, k, nonterminals, symbols, rules) ==
    IF k > Len(defs) THEN [symbols |-> symbols, rules |-> rules]
    ELSE LET b == IF defs[k][2] = <<>>
                  THEN [symbols |-> symbols, body |-> <<NullId>>]
                  ELSE read_body(defs[k][2], 1, nonterminals, symbols, <<>>)
             syms == get_symbol(defs[k][1], FALSE, b.symbols)
             rule == Rule_new(Len(rules), id_of(syms, defs[k][1]), b.body, <<>>)
         IN IF \E i \in 1..Len(rules) : Rule_eq(rules[i], rule)
            THEN read_rules(defs, k + 1, nonterminals, syms, rules)
            ELSE read_rules(defs, k + 1, nonterminals, syms, Append(rules, rule))

read_file(start_name, defs, actions) ==
    LET start_symbol == Len(Symbol_internal)
        symbols0 == Append(Symbol_internal, NonTerminal(start_symbol, start_name))
        rules0 == <<Rule_new(0, StartId, <<EndId, start_symbol, EndId>>, <<NullId>>)>>
        nonterminals == {defs[i][1] : i \in 1..Len(defs)}
        r == read_rules(defs, 1, nonterminals, symbols0, rules0)
    IN Grammar_new(r.symbols, r.rules, start_symbol,
                   [s \in {id_of(r.symbols, n) : n \in DOMAIN actions \cap names_of(r.symbols)} |->
                       actions[Symbol(r, s).name]])

(***************************************************************************)
(* grammar.rs: FIRST, FOLLOW.  Every operation threads the grammar, whose  *)
(* first and follow fields are the RefCell caches.  A result is            *)
(* [val, g, ok]; ok = FALSE is unbounded recursion (a stack overflow).     *)
(***************************************************************************)
Ret(val, g) == [val |-> val, g |-> g, ok |-> TRUE]
Overflow(g) == [val |-> {}, g |-> g, ok |-> FALSE]

cache_first(g, symbol, first) ==
    [g EXCEPT !.first = (symbol :> first) @@ g.first]

RECURSIVE first_in(_, _, _)
RECURSIVE first_body(_, _, _, _, _, _)
RECURSIVE first_rules(_, _, _, _, _, _)
RECURSIVE first_loop(_, _, _, _, _)

\* The inner for loop over rule.tail(idx): p is the 0-based position visited.
first_body(g, symbol, body, p, rule_first, active) ==
    IF p >= Len(body)
    THEN [g |-> g, idx |-> p, rule_first |-> rule_first, ok |-> TRUE]
    ELSE IF body[p + 1] = symbol
    THEN [g |-> g, idx |-> p + 1, rule_first |-> rule_first \ {NullId}, ok |-> TRUE]
    ELSE Only({
        IF ~r.ok
        THEN [g |-> r.g, idx |-> p, rule_first |-> rule_first, ok |-> FALSE]
        ELSE IF NullId \notin r.val
             THEN [g |-> r.g, idx |-> Len(body),
                   rule_first |-> (rule_first \cup r.val) \ {NullId}, ok |-> TRUE]
             ELSE first_body(r.g, symbol, body, p + 1, rule_first \cup r.val, active)
        : r \in {first_in(g, body[p + 1], active)}})

\* The for loop over the (rule, idx) pairs; the cache is written after each rule.
first_rules(g, symbol, idxs, first, k, active) ==
    IF k > Len(idxs) THEN [g |-> g, idxs |-> idxs, first |-> first, ok |-> TRUE]
    ELSE Only({
        IF ~b.ok THEN [g |-> b.g, idxs |-> idxs, first |-> first, ok |-> FALSE]
        ELSE first_rules(cache_first(b.g, symbol, first \cup b.rule_first), symbol,
                         [idxs EXCEPT ![k] = b.idx], first \cup b.rule_first,
                         k + 1, active)
        : b \in {first_body(g, symbol, Rule(g, g.symbol_rules[symbol][k]).body,
                            idxs[k], {}, active)}})

first_loop(g, symbol, idxs, first, active) ==
    Only({
        IF ~r.ok THEN Overflow(r.g)
        ELSE IF (\A k \in 1..Len(r.idxs) :
                    Len(Rule(g, g.symbol_rules[symbol][k]).body) = r.idxs[k])
                \/ NullId \notin r.first
             THEN Ret(r.first, cache_first(r.g, symbol, r.first))
             ELSE first_loop(r.g, symbol, r.idxs, r.first, active)
        : r \in {first_rules(g, symbol, idxs, first, 1, active)}})

\* active: the <<symbol, cache>> pairs of the calls in progress.  A call
\* entered again with the cache it was first entered with repeats forever.
first_in(g, symbol, active) ==
    IF symbol \in DOMAIN g.first THEN Ret(g.first[symbol], g)
    ELSE IF is_terminal(Symbol(g, symbol))
         THEN Ret({symbol}, cache_first(g, symbol, {symbol}))
         ELSE IF symbol \notin DOMAIN g.symbol_rules THEN Ret({}, g)
              ELSE IF <<symbol, g.first>> \in active THEN Overflow(g)
                   ELSE first_loop(g, symbol,
                                   [k \in 1..Len(g.symbol_rules[symbol]) |-> 0], {},
                                   active \cup {<<symbol, g.first>>})

first(g, symbol) == first_in(g, symbol, {})

RECURSIVE first_sequence_from(_, _, _, _)
first_sequence_from(g, symbols, k, result) ==
    IF k > Len(symbols) THEN Ret(result, g)
    ELSE Only({
        IF ~r.ok THEN Overflow(r.g)
        ELSE IF NullId \notin r.val
             THEN Ret((result \cup r.val) \ {NullId}, r.g)
             ELSE first_sequence_from(r.g, symbols, k + 1, result \cup r.val)
        : r \in {first(g, symbols[k])}})

first_sequence(g, symbols) == first_sequence_from(g, symbols, 1, {})

\* One (rule, idx) step of the FOLLOW pass.
RECURSIVE follow_pass(_, _, _, _, _)
follow_pass(g, fol, done, k, idx) ==
    IF k > Len(g.rules) THEN [g |-> g, fol |-> fol, done |-> done, ok |-> TRUE]
    ELSE LET rule == g.rules[k] IN
         IF idx >= Len(rule.body) THEN follow_pass(g, fol, done, k + 1, 0)
         ELSE LET id == rule.body[idx + 1] IN
              IF is_terminal(Symbol(g, id)) THEN follow_pass(g, fol, done, k, idx + 1)
              ELSE Only({
                  LET from == fol[rule.head]
                      fst == IF r.val = {} THEN from
                             ELSE IF NullId \in r.val THEN (r.val \ {NullId}) \cup from
                                  ELSE r.val
                  IN IF ~r.ok THEN [g |-> r.g, fol |-> fol, done |-> done, ok |-> FALSE]
                     ELSE follow_pass(r.g, [fol EXCEPT ![id] = @ \cup fst],
                                      done /\ fst \subseteq fol[id], k, idx + 1)
                  : r \in {first_sequence(g, Rule_tail(rule, idx + 1))}})

RECURSIVE follow_loop(_, _)
follow_loop(g, fol) ==
    Only({IF ~r.ok \/ r.done THEN r ELSE follow_loop(r.g, r.fol)
          : r \in {follow_pass(g, fol, TRUE, 1, 0)}})

follow(g, symbol) ==
    IF symbol \in DOMAIN g.follow THEN Ret(g.follow[symbol], g)
    ELSE Only({
        IF ~r.ok THEN Overflow(r.g)
        ELSE Ret(r.fol[symbol], [r.g EXCEPT !.follow = r.fol])
        : r \in {follow_loop(g, [s \in 0..(Len(g.symbols) - 1) |-> {}])}})

RECURSIVE first_of_each(_, _, _, _)
first_of_each(g, symbols, k, result) ==
    IF k > Len(symbols) THEN Ret(result, g)
    ELSE Only({
        IF ~r.ok THEN Overflow(r.g)
        ELSE first_of_each(r.g, symbols, k + 1, result \cup r.val)
        : r \in {first(g, symbols[k])}})

first_follow(g, symbols, follow_symbol) ==
    Only({
        IF ~r.ok THEN Overflow(r.g)
        ELSE IF r.val = {} \/ NullId \in r.val
             THEN Only({
                 IF ~f.ok THEN Overflow(f.g)
                 ELSE first_of_each(f.g, to_sorted_vec(f.val), 1, r.val \ {NullId})
                 : f \in {follow(r.g, follow_symbol)}})
             ELSE r
        : r \in {first_sequence(g, symbols)}})

(***************************************************************************)
(* grammar.rs: verify.  The two for loops that return an error walk a      *)
(* HashMap, whose iteration order is not fixed: the symbol reported is any *)
(* of the offending ones.                                                  *)
(***************************************************************************)
Ok == [kind |-> "Ok"]
Err(kind, symbol) == [kind |-> kind, symbol |-> symbol]

body_nonterminals(g) ==
    UNION {Rule_nonterminals(g, g.rules[i]) : i \in 1..Len(g.rules)}

\* A faulty variant of unreachable: no head is found unreachable.
unreachable_none(g) == {}

unreachable(g) ==
    {id \in DOMAIN g.symbol_rules :
        /\ ~is_internal(Symbol(g, id))
        /\ id \notin body_nonterminals(g) \cup {g.start_symbol}}

\* A faulty variant of left_recursive: one rule starting with its head is
\* enough.
left_recursive_any(g) ==
    {head \in DOMAIN g.symbol_rules :
        /\ ~is_internal(Symbol(g, head))
        /\ g.symbol_rules[head] # <<>>
        /\ \E k \in 1..Len(g.symbol_rules[head]) :
               Rule(g, g.symbol_rules[head][k]).body[1] = head}

left_recursive(g) ==
    {head \in DOMAIN g.symbol_rules :
        /\ ~is_internal(Symbol(g, head))
        /\ g.symbol_rules[head] # <<>>
        /\ \A k \in 1..Len(g.symbol_rules[head]) :
               Rule(g, g.symbol_rules[head][k]).body[1] = head}

\* The nonterminals left after removing the heads of all-terminal rules.
not_terminal_only(g) ==
    (body_nonterminals(g) \cup {g.start_symbol}) \
        {g.rules[i].head : i \in {j \in 1..Len(g.rules) :
            \A id \in Range(g.rules[j].body) : is_terminal(Symbol(g, id))}}

\* A faulty variant of remove_realizable: the loop stops after one round.
remove_realizable_once(g, nonterminals) ==
    nonterminals \ {s \in nonterminals :
        \E k \in 1..Len(g.symbol_rules[s]) :
            Rule_nonterminals(g, Rule(g, g.symbol_rules[s][k])) \cap nonterminals = {}}

RECURSIVE remove_realizable(_, _)
remove_realizable(g, nonterminals) ==
    LET realizable == {s \in nonterminals :
            \E k \in 1..Len(g.symbol_rules[s]) :
                Rule_nonterminals(g, Rule(g, g.symbol_rules[s][k])) \cap nonterminals = {}}
    IN IF realizable = {} THEN nonterminals
       ELSE remove_realizable(g, nonterminals \ realizable)

\* A faulty variant of verify: left recursion is looked for before
\* unreachable symbols.
verify_reordered(g) ==
    IF g.start_symbol \notin DOMAIN g.symbol_rules
    THEN {Err("NoSymbol", g.start_symbol)}
    ELSE IF left_recursive(g) # {}
    THEN {Err("LeftRecursive", id) : id \in left_recursive(g)}
    ELSE IF unreachable(g) # {}
    THEN {Err("Unreachable", id) : id \in unreachable(g)}
    ELSE {Ok}

\* The set of results verify can return for g.
verify(g) ==
    IF g.start_symbol \notin DOMAIN g.symbol_rules
    THEN {Err("NoSymbol", g.start_symbol)}
    ELSE IF unreachable(g) # {}
    THEN {Err("Unreachable", id) : id \in unreachable(g)}
    ELSE IF left_recursive(g) # {}
    THEN {Err("LeftRecursive", id) : id \in left_recursive(g)}
    ELSE IF \E s \in not_terminal_only(g) : s \notin DOMAIN g.symbol_rules
    THEN {[kind |-> "Panic"]}
    ELSE LET nonterminals == remove_realizable(g, not_terminal_only(g)) IN
         IF nonterminals # {}
         THEN {Err("NotRealizable", Min(nonterminals))}
         ELSE {Ok}

(***************************************************************************)
(* parser.rs: the LL(1) table.  A Table maps <<key1, key2>> to a value.     *)
(***************************************************************************)
EmptyTable == [x \in {} |-> 0]

RECURSIVE ll_table_rules(_, _, _, _, _)
ll_table_rules(g, ignored_symbols, k, parsing_table, conflicts) ==
    IF k > Len(g.rules)
    THEN [g |-> g, table |-> parsing_table, conflicts |-> conflicts, ok |-> TRUE]
    ELSE LET rule == g.rules[k] IN
         IF rule.head \in ignored_symbols
         THEN ll_table_rules(g, ignored_symbols, k + 1, parsing_table, conflicts)
         ELSE Only({
             LET cells == {<<rule.head, s>> : s \in r.val}
             IN IF ~r.ok
                THEN [g |-> r.g, table |-> parsing_table, conflicts |-> conflicts, ok |-> FALSE]
                ELSE ll_table_rules(r.g, ignored_symbols, k + 1,
                                    [c \in cells |-> rule.id] @@ parsing_table,
                                    IF cells \cap DOMAIN parsing_table # {}
                                    THEN conflicts \cup {rule.head} ELSE conflicts)
             : r \in {Only({
                 IF fs.ok /\ NullId \in fs.val THEN follow(fs.g, rule.head) ELSE fs
                 : fs \in {first_sequence(g, rule.body)}})}})

\* A faulty variant of get_ll_parsing_table: the table is returned whatever
\* the conflicts.
get_ll_parsing_table_unchecked(g, ignored_symbols) ==
    Only({[ok |-> r.ok, g |-> r.g, is_ok |-> TRUE, table |-> r.table, conflicts |-> <<>>]
          : r \in {ll_table_rules(g, ignored_symbols, 1, EmptyTable, {})}})

\* [ok, g, is_ok, table, conflicts]: Ok(table) or Err(sorted conflicts).
get_ll_parsing_table(g, ignored_symbols) ==
    Only({[ok |-> r.ok, g |-> r.g, is_ok |-> r.conflicts = {},
           table |-> r.table, conflicts |-> to_sorted_vec(r.conflicts)]
          : r \in {ll_table_rules(g, ignored_symbols, 1, EmptyTable, {})}})

(***************************************************************************)
(* parser.rs: helpers of the drivers.  A token is its symbol ID; a stack   *)
(* is a sequence whose last element is the top.                            *)
(***************************************************************************)
\* A faulty variant of get_input: no End is pushed at the back.
get_input_open(tokens) == <<EndId>> \o tokens

get_input(tokens) == <<EndId>> \o tokens \o <<EndId>>

Last(s) == s[Len(s)]
Pop(s) == SubSeq(s, 1, Len(s) - 1)

RECURSIVE Reverse(_)
Reverse(s) == IF s = <<>> THEN <<>> ELSE Append(Reverse(Tail(s)), Head(s))

\* A faulty variant of push_body: the null symbol is pushed too.
push_body_all(body) == Reverse(body)

\* The body of a rule pushed in reverse, leaving out the null symbol.
push_body(body) == SelectSeq(Reverse(body), LAMBDA symbol : symbol # NullId)

ErrParse(token) == [kind |-> "Parse", token |-> token]
ErrEOF == [kind |-> "EOF"]
ErrInternal == [kind |-> "Internal"]
ErrConflict(symbol) == [kind |-> "Conflict", symbol |-> symbol]
OkRules(rules) == [kind |-> "Ok", rules |-> rules]
\* A panic (unwrap of None, index out of range) or a stack overflow.
Crash == [kind |-> "Crash"]

\* A faulty variant of finish: a stack that is not empty is accepted.
finish_no_eof(g, input, stack, rules) ==
    IF input # <<>> /\ ~is_internal(Symbol(g, Head(input))) THEN ErrParse(Head(input))
    ELSE OkRules(rules)

\* A faulty variant of finish: the stack is looked at before the input.
finish_stack_first(g, input, stack, rules) ==
    IF stack # <<>> THEN ErrEOF
    ELSE IF input # <<>> /\ ~is_internal(Symbol(g, Head(input))) THEN ErrParse(Head(input))
    ELSE OkRules(rules)

\* next_token, then the checks that end parse_ll and parse_lllr.
finish(g, input, stack, rules) ==
    IF input # <<>> /\ ~is_internal(Symbol(g, Head(input))) THEN ErrParse(Head(input))
    ELSE IF stack # <<>> THEN ErrEOF
    ELSE OkRules(rules)

\* reduce_rule: the stack after popping the symbols, or an Internal error.
RECURSIVE reduce_rule(_, _)
reduce_rule(stack, symbols) ==
    IF symbols = <<>> THEN [ok |-> TRUE, stack |-> stack]
    ELSE IF Last(symbols) = NullId THEN reduce_rule(stack, Pop(symbols))
    ELSE IF stack = <<>> \/ Last(stack)[1] # Last(symbols)
         THEN [ok |-> FALSE, stack |-> IF stack = <<>> THEN stack ELSE Pop(stack)]
         ELSE reduce_rule(Pop(stack), Pop(symbols))

(***************************************************************************)
(* automaton/item.rs                                                       *)
(***************************************************************************)
NoHead == 0 - 1

head_at(rule, dot) == IF dot < Len(rule.body) THEN rule.body[dot + 1] ELSE NoHead

Item_initial(id, rule, lookahead) ==
    [id |-> id, rule |-> rule.id, dot |-> 0, head |-> rule.body[1],
     lookahead |-> lookahead, unique |-> TRUE]

Item_new(id, rule, lookahead, unique) ==
    LET dot == IF rule.body[1] = EndId THEN 1 ELSE 0 IN
    [id |-> id, rule |-> rule.id, dot |-> dot, head |-> rule.body[dot + 1],
     lookahead |-> lookahead, unique |-> unique]

Item_pass(item, rule) ==
    IF item.dot < Len(rule.body)
    THEN [item EXCEPT !.dot = @ + 1, !.head = head_at(rule, item.dot + 1)]
    ELSE item

Item_tail(item, rule) ==
    (IF item.head # NoHead THEN Rule_tail(rule, item.dot + 1) ELSE <<>>)
        \o <<item.lookahead>>

Item_follow(item, rule) == Rule_tail(rule, item.dot) \o <<item.lookahead>>

at_nonterminal(g, item) ==
    item.head # NoHead /\ is_nonterminal(Symbol(g, item.head))

can_reduce(item, initial_rule) ==
    /\ item.rule # initial_rule
    /\ item.head = NoHead \/ item.head = NullId

can_accept(item, initial_rule) ==
    item.rule = initial_rule /\ item.head = NoHead

\* Equality and hash of an item leave out id (and head, fixed by rule and dot).
Item_key(item) == <<item.rule, item.dot, item.lookahead, item.unique>>

\* An IndexSet of items: the position of an item is its id.
find_item(items, item) ==
    {i \in 1..Len(items) : Item_key(items[i]) = Item_key(item)}

(***************************************************************************)
(* automaton/transition.rs, automaton/state.rs                             *)
(***************************************************************************)
Transition_new(from, to, symbol) == [from |-> from, to |-> to, symbol |-> symbol]

State_new(id, items) == [id |-> id, items |-> items]

State_transitions(state, items) ==
    to_sorted_vec({items[state.items[i] + 1].head : i \in 1..Len(state.items)}
                      \ {NoHead, NullId})

RECURSIVE insert_sorted(_, _)
insert_sorted(s, x) ==
    IF s = <<>> THEN <<x>>
    ELSE IF x <= Head(s) THEN <<x>> \o s
    ELSE <<Head(s)>> \o insert_sorted(Tail(s), x)

RECURSIVE sort_unstable(_)
sort_unstable(s) ==
    IF s = <<>> THEN <<>> ELSE insert_sorted(sort_unstable(Tail(s)), Head(s))

\* The HashSet buffer: key -> the temporary id of the item first inserted.
buffer_insert(buffer, item) ==
    IF Item_key(item) \in DOMAIN buffer THEN buffer
    ELSE (Item_key(item) :> item.id) @@ buffer

\* A faulty variant of buffer_insert_both: the item is inserted as it is only.
buffer_insert_one(buffer, item) == buffer_insert(buffer, item)

buffer_insert_both(buffer, item) ==
    buffer_insert(buffer_insert(buffer, item), [item EXCEPT !.unique = ~@])

RECURSIVE propagate_non_unique(_, _, _, _)
propagate_non_unique(items, non_unique, state, transitions) ==
    LET next == {t.to[2] : t \in {t \in transitions :
                    /\ t.from[1] = state
                    /\ items[t.to[2] + 1].unique
                    /\ t.from[2] \in non_unique}}
    IN IF next = {} THEN items
       ELSE propagate_non_unique(
                [i \in 1..Len(items) |->
                    IF (i - 1) \in next THEN [items[i] EXCEPT !.unique = FALSE] ELSE items[i]],
                next, state, transitions)

\* The uniqueness the parents give to item id (the else branch).
parents_unique(id, items, transitions) ==
    LET parents == {t.from[2] : t \in {t \in transitions : t.to[2] = id}}
                       \cap (0..(Len(items) - 1))
    IN \A p \in parents : \A q \in parents :
           /\ items[p + 1].unique
           /\ items[p + 1].rule = items[q + 1].rule
           /\ items[p + 1].dot = items[q + 1].dot

\* A faulty variant of update_uniqueness: an item derived again changes its
\* flag, whatever it was.
update_uniqueness_flip(id, from, items, transitions) ==
    [i \in 1..Len(items) |->
        IF i = id + 1 THEN [items[i] EXCEPT !.unique = ~@] ELSE items[i]]

update_uniqueness(id, from, items, transitions) ==
    IF ~items[id + 1].unique THEN items
    ELSE LET unique == IF id = from[2] THEN FALSE
                       ELSE parents_unique(id, items, transitions)
             items1 == [i \in 1..Len(items) |->
                 IF i = id + 1 THEN [items[i] EXCEPT !.unique = unique] ELSE items[i]]
         IN IF unique THEN items1
            ELSE propagate_non_unique(items1, {id}, from[1], transitions)

(***************************************************************************)
(* automaton/state.rs: State::derive.  d is the state of the call:         *)
(* [g, next_items, transitions, buffer, queue, ok, crash].                 *)
(***************************************************************************)
RECURSIVE buffer_of(_, _, _)
buffer_of(next_items, k, buffer) ==
    IF k > Len(next_items) THEN buffer
    ELSE buffer_of(next_items, k + 1, buffer_insert_both(buffer, next_items[k]))

\* The kernel: the items of the state that can pass the symbol, passed.
derive_kernel(self, symbol, g, items, state_id) ==
    LET olds == SelectSeq([i \in 1..Len(self.items) |-> i - 1],
                          LAMBDA idx : items[self.items[idx + 1] + 1].head = symbol)
        next_items == [k \in 1..Len(olds) |->
            LET item == items[self.items[olds[k] + 1] + 1] IN
            Item_pass([item EXCEPT !.id = k - 1], Rule(g, item.rule))]
    IN [g |-> g,
        next_items |-> next_items,
        transitions |-> {Transition_new(<<self.id, olds[k]>>, <<state_id, k - 1>>, symbol) :
                            k \in 1..Len(olds)},
        buffer |-> buffer_of(next_items, 1, [x \in {} |-> 0]),
        queue |-> SelectSeq([k \in 1..Len(olds) |-> k - 1],
                            LAMBDA id : at_nonterminal(g, next_items[id + 1])),
        ok |-> TRUE, crash |-> FALSE]

RECURSIVE derive_lookaheads(_, _, _, _, _, _)
derive_lookaheads(d, item, rule, lookaheads, k, state_id) ==
    IF k > Len(lookaheads) THEN d
    ELSE LET next_item == Item_new(Len(d.next_items), rule, lookaheads[k], item.unique)
             key == Item_key(next_item)
         IN IF key \in DOMAIN d.buffer
            THEN LET existing == d.buffer[key]
                     transitions == d.transitions \cup
                         {Transition_new(<<state_id, item.id>>, <<state_id, existing>>, NullId)}
                 IN derive_lookaheads(
                        [d EXCEPT !.transitions = transitions,
                                  !.next_items = update_uniqueness(existing, <<state_id, item.id>>,
                                                                   d.next_items, transitions)],
                        item, rule, lookaheads, k + 1, state_id)
            ELSE derive_lookaheads(
                     [d EXCEPT !.queue = IF at_nonterminal(d.g, next_item)
                                         THEN Append(@, next_item.id) ELSE @,
                               !.next_items = Append(@, next_item),
                               !.transitions = @ \cup
                                   {Transition_new(<<state_id, item.id>>,
                                                   <<state_id, next_item.id>>, NullId)},
                               !.buffer = buffer_insert_both(@, next_item)],
                     item, rule, lookaheads, k + 1, state_id)

RECURSIVE derive_rules(_, _, _, _, _, _)
derive_rules(d, item, rules, k, lookaheads, state_id) ==
    IF k > Len(rules) THEN d
    ELSE derive_rules(derive_lookaheads(d, item, rules[k], lookaheads, 1, state_id),
                      item, rules, k + 1, lookaheads, state_id)

\* One iteration of the closure loop: the item popped from the queue.
derive_item(d, id, state_id) ==
    IF ~d.ok \/ d.crash THEN d
    ELSE LET item == d.next_items[id + 1] IN
         Only({
             IF ~r.ok THEN [d EXCEPT !.g = r.g, !.ok = FALSE]
             ELSE IF item.head \notin DOMAIN d.g.symbol_rules
             THEN [d EXCEPT !.g = r.g, !.crash = TRUE]
             ELSE derive_rules([d EXCEPT !.g = r.g], item, Rules(d.g, item.head), 1,
                               to_sorted_vec(r.val), state_id)
             : r \in {first_sequence(d.g, Item_tail(item, Rule(d.g, item.rule)))}})

\* The iterations for entries[lo..hi], in order, evaluated by halves.
RECURSIVE derive_entries(_, _, _, _, _)
derive_entries(d, entries, lo, hi, state_id) ==
    IF lo > hi THEN d
    ELSE IF lo = hi THEN derive_item(d, entries[lo], state_id)
    ELSE Only({
        IF ~left.ok \/ left.crash THEN left
        ELSE derive_entries(left, entries, (lo + hi) \div 2 + 1, hi, state_id)
        : left \in {derive_entries(d, entries, lo, (lo + hi) \div 2, state_id)}})

\* The closure loop: the items now in the queue are processed first to
\* last, the ones they push after them.
RECURSIVE derive_queue(_, _)
derive_queue(d, state_id) ==
    IF d.queue = <<>> \/ ~d.ok \/ d.crash THEN d
    ELSE derive_queue(derive_entries([d EXCEPT !.queue = <<>>], d.queue, 1,
                                     Len(d.queue), state_id),
                      state_id)

\* Interning of the derived items in the automaton's item set.
RECURSIVE intern_items(_, _, _, _)
intern_items(items, next_items, k, ids) ==
    IF k > Len(next_items) THEN [items |-> items, ids |-> ids]
    ELSE LET found == find_item(items, next_items[k]) IN
         IF found # {}
         THEN intern_items(items, next_items, k + 1, Append(ids, Min(found) - 1))
         ELSE intern_items(Append(items, [next_items[k] EXCEPT !.id = Len(items)]),
                           next_items, k + 1, Append(ids, Len(items)))

\* The end of derive, after the closure loop has left d:
\* [some, state, transitions, items, g, ok, crash]
derive_finish(self, d, items, state_id) ==
    IF ~d.ok \/ d.crash
    THEN [some |-> FALSE, g |-> d.g, items |-> items, ok |-> d.ok, crash |-> d.crash]
    ELSE Only({
        LET port(p) == IF p[1] = self.id THEN <<p[1], self.items[p[2] + 1]>>
                       ELSE <<p[1], n.ids[p[2] + 1]>>
        IN [some |-> TRUE,
            state |-> State_new(state_id, sort_unstable(n.ids)),
            transitions |-> {Transition_new(port(t.from), port(t.to), t.symbol) :
                                t \in d.transitions},
            items |-> n.items, g |-> d.g, ok |-> TRUE, crash |-> FALSE]
        : n \in {intern_items(items, d.next_items, 1, <<>>)}})

\* [some, state, transitions, items, g, ok, crash]
derive(self, symbol, g, items, state_id) ==
    Only({
        IF k.next_items = <<>>
        THEN [some |-> FALSE, g |-> g, items |-> items, ok |-> TRUE, crash |-> FALSE]
        ELSE derive_finish(self, derive_queue(k, state_id), items, state_id)
        : k \in {derive_kernel(self, symbol, g, items, state_id)}})

(***************************************************************************)
(* automaton.rs: Automaton::new.  a is the state of the construction:      *)
(* [g, start_rule, states, state_transitions, items, item_transitions,     *)
(*  queue, ok, crash]; states and items are read at id + 1.                *)
(***************************************************************************)
find_state(states, state) ==
    {i \in 1..Len(states) : states[i].items = state.items}

retarget(t, from_id, to_id) ==
    [t EXCEPT !.from = IF @[1] = from_id THEN <<to_id, @[2]>> ELSE @,
              !.to = IF @[1] = from_id THEN <<to_id, @[2]>> ELSE @]

\* A faulty variant of automaton_insert: the transition to a state that
\* exists keeps the ID the derived state was given.
automaton_insert_unmerged(a, entry, r) ==
    LET symbol == entry[2]
        state == a.states[entry[1] + 1]
        a1 == [a EXCEPT !.g = r.g, !.items = r.items]
    IN IF ~r.ok THEN [a1 EXCEPT !.ok = FALSE]
       ELSE IF r.crash \/ ~r.some THEN [a1 EXCEPT !.crash = TRUE]
       ELSE IF find_state(a.states, r.state) # {}
            THEN [a1 EXCEPT !.state_transitions = @ \cup
                                {Transition_new(state.id, r.state.id, symbol)},
                            !.item_transitions = @ \cup r.transitions]
            ELSE LET symbols == State_transitions(r.state, r.items) IN
                 [a1 EXCEPT !.states = Append(@, r.state),
                            !.state_transitions = @ \cup
                                {Transition_new(state.id, r.state.id, symbol)},
                            !.item_transitions = @ \cup r.transitions,
                            !.queue = @ \o [i \in 1..Len(symbols) |->
                                               <<r.state.id, symbols[i]>>]]

\* The loop body after derive has returned r for the entry <<id, symbol>>.
automaton_insert(a, entry, r) ==
    LET symbol == entry[2]
        state == a.states[entry[1] + 1]
        a1 == [a EXCEPT !.g = r.g, !.items = r.items]
    IN IF ~r.ok THEN [a1 EXCEPT !.ok = FALSE]
       ELSE IF r.crash \/ ~r.some THEN [a1 EXCEPT !.crash = TRUE]
       ELSE LET existing == find_state(a.states, r.state) IN
            IF existing # {}
            THEN [a1 EXCEPT !.state_transitions = @ \cup
                                {Transition_new(state.id, Min(existing) - 1, symbol)},
                            !.item_transitions = @ \cup
                                {retarget(t, r.state.id, Min(existing) - 1) :
                                    t \in r.transitions}]
            ELSE LET symbols == State_transitions(r.state, r.items) IN
                 [a1 EXCEPT !.states = Append(@, r.state),
                            !.state_transitions = @ \cup
                                {Transition_new(state.id, r.state.id, symbol)},
                            !.item_transitions = @ \cup r.transitions,
                            !.queue = @ \o [i \in 1..Len(symbols) |->
                                               <<r.state.id, symbols[i]>>]]

\* One iteration of the loop: the transition <<id, symbol>> popped from the
\* queue.  Nothing is done once the construction has failed.
automaton_step(a, entry) ==
    IF ~a.ok \/ a.crash THEN a
    ELSE Only({automaton_insert(a, entry, r)
               : r \in {derive(a.states[entry[1] + 1], entry[2], a.g, a.items,
                                Len(a.states))}})

\* The iterations for entries[lo..hi], in order, evaluated by halves.
RECURSIVE automaton_entries(_, _, _, _)
automaton_entries(a, entries, lo, hi) ==
    IF lo > hi THEN a
    ELSE IF lo = hi THEN automaton_step(a, entries[lo])
    ELSE Only({
        IF ~left.ok \/ left.crash THEN left
        ELSE automaton_entries(left, entries, (lo + hi) \div 2 + 1, hi)
        : left \in {automaton_entries(a, entries, lo, (lo + hi) \div 2)}})

\* The loop: the entries now in the queue are processed first to last, the
\* ones they push after them.
RECURSIVE automaton_loop(_)
automaton_loop(a) ==
    IF a.queue = <<>> \/ ~a.ok \/ a.crash THEN a
    ELSE automaton_loop(
             automaton_entries([a EXCEPT !.queue = <<>>], a.queue, 1, Len(a.queue)))

\* The construction before the loop: the initial state and its queue entry.
Automaton_initial(g, rule) ==
    LET start_rule == Rule(g, rule)
        items == [i \in 1..Len(start_rule.follow) |->
                     Item_initial(i - 1, start_rule, start_rule.follow[i])]
    IN [g |-> g, start_rule |-> rule,
        states |-> <<State_new(0, [i \in 1..Len(items) |-> i - 1])>>,
        state_transitions |-> {},
        items |-> items,
        item_transitions |-> {},
        queue |-> <<<<0, EndId>>>>,
        ok |-> TRUE, crash |-> FALSE]

Automaton_new(g, rule) == automaton_loop(Automaton_initial(g, rule))

(***************************************************************************)
(* automaton/action.rs, automaton.rs: the tables                           *)
(***************************************************************************)
Shift(state) == [kind |-> "Shift", arg |-> state]
Reduce(rule) == [kind |-> "Reduce", arg |-> rule]
Accept(rule) == [kind |-> "Accept", arg |-> rule]

\* The Shift entries: the state transitions on a terminal or on End.
shift_table(a) ==
    LET shifts == {t \in a.state_transitions :
                      Symbol(a.g, t.symbol).kind \in {"Terminal", "End"}}
    IN [key \in {<<t.from, t.symbol>> : t \in shifts} |->
           Shift((CHOOSE t \in shifts : <<t.from, t.symbol>> = key).to)]

\* A faulty variant of action_item: an occupied cell keeps its entry and no
\* conflict is reported.
action_item_silent(a, p, r) ==
    IF ~r.is_ok THEN r
    ELSE LET state == a.states[p[1]]
             item == a.items[state.items[p[2]] + 1]
             accept == can_accept(item, a.start_rule)
             action == IF accept THEN Accept(item.rule) ELSE Reduce(item.rule)
             key == <<state.id, item.lookahead>>
         IN IF ~accept /\ ~can_reduce(item, a.start_rule) THEN r
            ELSE IF key \in DOMAIN r.table THEN r
                 ELSE [r EXCEPT !.table = (key :> action) @@ @]

\* The body of the loop for one item: r is [is_ok, table | state, symbol].
action_item(a, p, r) ==
    IF ~r.is_ok THEN r
    ELSE LET state == a.states[p[1]]
             item == a.items[state.items[p[2]] + 1]
             accept == can_accept(item, a.start_rule)
             action == IF accept THEN Accept(item.rule) ELSE Reduce(item.rule)
             key == <<state.id, item.lookahead>>
         IN IF ~accept /\ ~can_reduce(item, a.start_rule) THEN r
            ELSE IF key \in DOMAIN r.table
                 THEN IF item.lookahead \in DOMAIN a.g.actions
                      THEN IF a.g.actions[item.lookahead] = "reduce"
                           THEN [r EXCEPT !.table = [@ EXCEPT ![key] = action]]
                           ELSE r
                      ELSE [is_ok |-> FALSE, table |-> r.table,
                            state |-> state.id, symbol |-> item.lookahead]
                 ELSE [r EXCEPT !.table = (key :> action) @@ @]

\* The loop over the items lo..hi of state s, in order, evaluated by halves.
RECURSIVE action_items(_, _, _, _, _)
action_items(a, s, lo, hi, r) ==
    IF lo > hi THEN r
    ELSE IF lo = hi THEN action_item(a, <<s, lo>>, r)
    ELSE Only({
        IF ~left.is_ok THEN left ELSE action_items(a, s, (lo + hi) \div 2 + 1, hi, left)
        : left \in {action_items(a, s, lo, (lo + hi) \div 2, r)}})

\* The loop over the states lo..hi, in order, evaluated by halves.
RECURSIVE action_states(_, _, _, _)
action_states(a, lo, hi, r) ==
    IF lo > hi THEN r
    ELSE IF lo = hi THEN action_items(a, lo, 1, Len(a.states[lo].items), r)
    ELSE Only({
        IF ~left.is_ok THEN left ELSE action_states(a, (lo + hi) \div 2 + 1, hi, left)
        : left \in {action_states(a, lo, (lo + hi) \div 2, r)}})

action_table(a) ==
    action_states(a, 1, Len(a.states), [is_ok |-> TRUE, table |-> shift_table(a)])

goto_table(a) ==
    LET gotos == {t \in a.state_transitions : is_nonterminal(Symbol(a.g, t.symbol))}
    IN [key \in {<<t.from, t.symbol>> : t \in gotos} |->
           (CHOOSE t \in gotos : <<t.from, t.symbol>> = key).to]

\* The candidates of the LEFT table an item adds:
\* <<state, symbol, position, item>>; c is [ok, g, cands].
left_item(a, p, c) ==
    IF ~c.ok THEN c
    ELSE LET state == a.states[p[1]]
             item == a.items[state.items[p[2]] + 1]
         IN Only({
             IF ~r.ok THEN [c EXCEPT !.ok = FALSE, !.g = r.g]
             ELSE [c EXCEPT !.g = r.g,
                            !.cands = @ \cup {<<state.id, symbol, p[2], item.id>> :
                                                 symbol \in r.val}]
             : r \in {first_sequence(c.g, Item_follow(item, Rule(c.g, item.rule)))}})

\* The loop over the items lo..hi of state s, in order, evaluated by halves.
RECURSIVE left_candidates(_, _, _, _, _)
left_candidates(a, s, lo, hi, c) ==
    IF lo > hi THEN c
    ELSE IF lo = hi THEN left_item(a, <<s, lo>>, c)
    ELSE Only({
        IF ~left.ok THEN left ELSE left_candidates(a, s, (lo + hi) \div 2 + 1, hi, left)
        : left \in {left_candidates(a, s, lo, (lo + hi) \div 2, c)}})

\* The loop over the states lo..hi, in order, evaluated by halves.
RECURSIVE left_states(_, _, _, _)
left_states(a, lo, hi, c) ==
    IF lo > hi THEN c
    ELSE IF lo = hi THEN left_candidates(a, lo, 1, Len(a.states[lo].items), c)
    ELSE Only({
        IF ~left.ok THEN left ELSE left_states(a, (lo + hi) \div 2 + 1, hi, left)
        : left \in {left_states(a, lo, (lo + hi) \div 2, c)}})

\* A faulty variant of left_table: the cell of a single candidate is kept
\* whether the item is unique or not.
left_table_single(a) ==
    Only({
        LET single == {x \in c.cands :
                          \A y \in c.cands : (y[1] = x[1] /\ y[2] = x[2]) => y = x}
        IN [ok |-> c.ok, g |-> c.g,
            table |-> [key \in {<<x[1], x[2]>> : x \in single} |->
                          (CHOOSE x \in single : <<x[1], x[2]>> = key)[4]]]
        : c \in {left_states(a, 1, Len(a.states), [ok |-> TRUE, g |-> a.g, cands |-> {}])}})

left_table(a) ==
    Only({
        LET single == {x \in c.cands :
                          /\ \A y \in c.cands : (y[1] = x[1] /\ y[2] = x[2]) => y = x
                          /\ a.items[x[4] + 1].unique}
        IN [ok |-> c.ok, g |-> c.g,
            table |-> [key \in {<<x[1], x[2]>> : x \in single} |->
                          (CHOOSE x \in single : <<x[1], x[2]>> = key)[4]]]
        : c \in {left_states(a, 1, Len(a.states), [ok |-> TRUE, g |-> a.g, cands |-> {}])}})

pair_less(p, q) == p[1] < q[1] \/ (p[1] = q[1] /\ p[2] < q[2])

\* The sorted item transitions are inserted last to first, so of several
\* transitions with one target the least source stays in the map.
backtrack_table(a) ==
    LET unique_to == {t \in a.item_transitions : a.items[t.to[2] + 1].unique}
    IN [to \in {t.to : t \in unique_to} |->
           CHOOSE from \in {t.from : t \in {u \in unique_to : u.to = to}} :
               \A t \in unique_to : t.to = to => (t.from = from \/ pair_less(from, t.from))]

\* Data::new keeps the items named in the BACKTRACK table.
Data_new(g, start_rule, items, actions, gotos, left, backtrack) ==
    [grammar |-> g,
     start_rule |-> start_rule,
     items |-> [id \in {to[2] : to \in DOMAIN backtrack}
                          \cup {backtrack[to][2] : to \in DOMAIN backtrack} |-> items[id + 1]],
     action_table |-> actions,
     goto_table |-> gotos,
     left_table |-> left,
     backtrack_table |-> backtrack]

\* Automaton::data: [ok, crash, is_ok, data | state, symbol].
Automaton_data(a) ==
    IF ~a.ok \/ a.crash THEN [ok |-> a.ok, crash |-> a.crash, is_ok |-> FALSE]
    ELSE Only({
        IF ~actions.is_ok
        THEN [ok |-> TRUE, crash |-> FALSE, is_ok |-> FALSE,
              state |-> actions.state, symbol |-> actions.symbol]
        ELSE Only({
            IF ~left.ok THEN [ok |-> FALSE, crash |-> FALSE, is_ok |-> FALSE]
            ELSE [ok |-> TRUE, crash |-> FALSE, is_ok |-> TRUE,
                  data |-> Data_new(left.g, a.start_rule, a.items, actions.table,
                                    goto_table(a), left.table, backtrack_table(a))]
            : left \in {left_table(a)}})
        : actions \in {action_table(a)}})

\* Automaton::is_valid: the automaton has no conflict in its ACTION table.
Automaton_is_valid(a) == action_table(a).is_ok

(***************************************************************************)
(* grammar.rs: wrap_symbols                                                *)
(***************************************************************************)
\* The naming loop: [crash, found, rule | name].
RECURSIVE wrap_name(_, _, _)
wrap_name(g, name, symbols) ==
    LET named == {i \in 1..Len(g.symbols) : Symbol_name(g.symbols[i]) = name \o "'"} IN
    IF named = {} THEN [crash |-> FALSE, found |-> FALSE, name |-> name \o "'"]
    ELSE LET id == Min(named) - 1 IN
         IF id \notin DOMAIN g.symbol_rules THEN [crash |-> TRUE, found |-> FALSE]
         ELSE LET same == {k \in 1..Len(g.symbol_rules[id]) :
                              Rule(g, g.symbol_rules[id][k]).body = symbols}
              IN IF same # {}
                 THEN [crash |-> FALSE, found |-> TRUE, rule |-> g.symbol_rules[id][Min(same)]]
                 ELSE wrap_name(g, name \o "'", symbols)

\* A faulty variant of wrap_symbols: the body of the wrapper rule is the
\* wrapped sequence, without the End in front.
wrap_symbols_bare(g, symbols, follow_set) ==
    LET head == Symbol(g, symbols[1])
        n == wrap_name(g, Symbol_name(head), symbols)
        symbol_id == Len(g.symbols)
        rule_id == Len(g.rules)
    IN IF n.crash THEN [crash |-> TRUE, g |-> g, rule |-> 0]
       ELSE IF n.found THEN [crash |-> FALSE, g |-> g, rule |-> n.rule]
       ELSE [crash |-> FALSE, rule |-> rule_id,
             g |-> [g EXCEPT
                 !.symbols = Append(@, NonTerminal(symbol_id, n.name)),
                 !.rules = Append(@, Rule_new(rule_id, symbol_id, symbols, follow_set)),
                 !.symbol_rules = (symbol_id :> <<rule_id>>) @@ @]]

\* [crash, g, rule]
wrap_symbols(g, symbols, follow_set) ==
    LET head == Symbol(g, symbols[1])
        n == wrap_name(g, Symbol_name(head), symbols)
        symbol_id == Len(g.symbols)
        rule_id == Len(g.rules)
    IN IF n.crash THEN [crash |-> TRUE, g |-> g, rule |-> 0]
       ELSE IF n.found THEN [crash |-> FALSE, g |-> g, rule |-> n.rule]
       ELSE [crash |-> FALSE, rule |-> rule_id,
             g |-> [g EXCEPT
                 !.symbols = Append(@, NonTerminal(symbol_id, n.name)),
                 !.rules = Append(@, Rule_new(rule_id, symbol_id, <<EndId>> \o symbols,
                                              follow_set)),
                 !.symbol_rules = (symbol_id :> <<rule_id>>) @@ @,
                 !.first = IF head.id \in DOMAIN @ THEN (symbol_id :> @[head.id]) @@ @ ELSE @,
                 !.follow = IF head.id \in DOMAIN @ THEN (symbol_id :> @[head.id]) @@ @ ELSE @]]

(***************************************************************************)
(* parser.rs: get_lllr_parsing_tables.  w is the state of the wrapper      *)
(* search: [g, all_conflicts, new_conflicts, wrappers, ok, crash], with    *)
(* wrappers a map head -> list of <<rule id, idx, symbols, follow>>.       *)
(***************************************************************************)
\* The loop that grows the wrapped sequence: n symbols are taken from idx.
RECURSIVE find_wrapper(_, _, _, _)
find_wrapper(g, rule, idx, n) ==
    IF n > Len(Rule_tail(rule, idx))
    THEN [valid |-> FALSE, g |-> g, ok |-> TRUE, crash |-> FALSE]
    ELSE Only({
        IF ~ff.ok THEN [valid |-> FALSE, g |-> ff.g, ok |-> FALSE, crash |-> FALSE]
        ELSE Only({
            IF wrapped.crash THEN [valid |-> FALSE, g |-> ff.g, ok |-> TRUE, crash |-> TRUE]
            ELSE Only({
                IF a.crash \/ ~a.ok
                THEN [valid |-> FALSE, g |-> ff.g, ok |-> a.ok, crash |-> a.crash]
                ELSE IF Automaton_is_valid(a)
                THEN [valid |-> TRUE, g |-> ff.g, ok |-> TRUE, crash |-> FALSE,
                      symbols |-> SubSeq(Rule_tail(rule, idx), 1, n),
                      follow |-> to_sorted_vec(ff.val)]
                ELSE find_wrapper(ff.g, rule, idx, n + 1)
                : a \in {Automaton_new(wrapped.g, wrapped.rule)}})
            : wrapped \in {wrap_symbols(ff.g, SubSeq(Rule_tail(rule, idx), 1, n),
                                        to_sorted_vec(ff.val))}})
        : ff \in {first_follow(g, Rule_tail(rule, idx + n), rule.head)}})

RECURSIVE scan_body(_, _, _, _)
scan_body(w, conflicts, k, idx) ==
    LET rule == w.g.rules[k] IN
    IF idx >= Len(rule.body) THEN w
    ELSE IF rule.body[idx + 1] \notin conflicts THEN scan_body(w, conflicts, k, idx + 1)
    ELSE Only({
        IF ~f.ok \/ f.crash THEN [w EXCEPT !.g = f.g, !.ok = f.ok, !.crash = f.crash]
        ELSE IF ~f.valid
        THEN [w EXCEPT !.g = f.g,
                       !.all_conflicts = @ \cup {rule.head},
                       !.new_conflicts = @ \cup ({rule.head} \ w.all_conflicts),
                       !.wrappers = [h \in DOMAIN @ \ {rule.head} |-> @[h]]]
        ELSE scan_body(
                 [w EXCEPT !.g = f.g,
                           !.wrappers = (rule.head :>
                               Append(IF rule.head \in DOMAIN @ THEN @[rule.head] ELSE <<>>,
                                      <<rule.id, idx, f.symbols, f.follow>>)) @@ @],
                 conflicts, k, idx + Len(f.symbols))
        : f \in {find_wrapper(w.g, rule, idx, 1)}})

\* A variant of scan_rules that also scans the rules of conflicting heads.
RECURSIVE scan_rules_all(_, _, _)
scan_rules_all(w, conflicts, k) ==
    IF k > Len(w.g.rules) \/ ~w.ok \/ w.crash THEN w
    ELSE scan_rules_all(scan_body(w, conflicts, k, 0), conflicts, k + 1)

RECURSIVE scan_rules(_, _, _)
scan_rules(w, conflicts, k) ==
    IF k > Len(w.g.rules) \/ ~w.ok \/ w.crash THEN w
    ELSE IF w.g.rules[k].head \in w.all_conflicts THEN scan_rules(w, conflicts, k + 1)
    ELSE scan_rules(scan_body(w, conflicts, k, 0), conflicts, k + 1)

RECURSIVE wrapper_rounds(_, _)
wrapper_rounds(w, conflicts) ==
    IF conflicts = {} \/ ~w.ok \/ w.crash THEN w
    ELSE Only({wrapper_rounds(w1, w1.new_conflicts)
               : w1 \in {scan_rules([w EXCEPT !.new_conflicts = {}], conflicts, 1)}})

\* The wrappers of all heads, sorted (by rule id, then idx).
RECURSIVE sorted_wrappers(_)
sorted_wrappers(ws) ==
    IF ws = {} THEN <<>>
    ELSE LET m == CHOOSE x \in ws : \A y \in ws : y = x \/ pair_less(x, y)
         IN <<m>> \o sorted_wrappers(ws \ {m})

all_wrappers(wrappers) == UNION {Range(wrappers[h]) : h \in DOMAIN wrappers}

\* Wrap conflicting symbols: the list of <<id, from, to, rule>>.
RECURSIVE wrap_all(_, _, _, _)
wrap_all(g, ws, k, out) ==
    IF k > Len(ws) THEN [crash |-> FALSE, g |-> g, wrapped |-> out]
    ELSE Only({
        IF r.crash THEN [crash |-> TRUE, g |-> g, wrapped |-> out]
        ELSE wrap_all(r.g, ws, k + 1,
                      Append(out, <<ws[k][1], ws[k][2], ws[k][2] + Len(ws[k][3]), r.rule>>))
        : r \in {wrap_symbols(g, ws[k][3], ws[k][4])}})

splice(body, from, to, symbol) ==
    SubSeq(body, 1, from) \o <<symbol>> \o SubSeq(body, to + 1, Len(body))

\* Apply wrappers in reverse order.
RECURSIVE apply_wrappers(_, _, _)
apply_wrappers(g, wrapped, k) ==
    IF k < 1 THEN [crash |-> FALSE, g |-> g]
    ELSE LET id == wrapped[k][1]
             body == Rule(g, id).body
         IN IF wrapped[k][3] > Len(body) THEN [crash |-> TRUE, g |-> g]
            ELSE apply_wrappers(
                     [g EXCEPT !.rules[id + 1].body =
                         splice(body, wrapped[k][2], wrapped[k][3], Rule(g, wrapped[k][4]).head)],
                     wrapped, k - 1)

\* Construct embedded automatons: [kind, tables].
RECURSIVE embedded_tables(_, _, _, _)
embedded_tables(g, wrapped, k, tables) ==
    IF k > Len(wrapped) THEN [kind |-> "Ok", tables |-> tables]
    ELSE LET symbol == Rule(g, wrapped[k][4]).head IN
         IF symbol \in DOMAIN tables THEN embedded_tables(g, wrapped, k + 1, tables)
         ELSE Only({
             IF ~d.ok THEN [kind |-> "Overflow", tables |-> tables]
             ELSE IF d.crash THEN [kind |-> "Crash", tables |-> tables]
             ELSE IF ~d.is_ok THEN [kind |-> "Internal", tables |-> tables]
             ELSE embedded_tables(g, wrapped, k + 1, (symbol :> d.data) @@ tables)
             : d \in {Automaton_data(Automaton_new(g, wrapped[k][4]))}})

\* [kind, g, parsing_table, tables, all_conflicts, wrappers]
get_lllr_parsing_tables(g) ==
    Only({Only({
        LET ws == sorted_wrappers(all_wrappers(w.wrappers))
            fail(kind, gr) == [kind |-> kind, g |-> gr, parsing_table |-> EmptyTable,
                               tables |-> [h \in {} |-> 0],
                               all_conflicts |-> w.all_conflicts, wrappers |-> ws]
        IN IF ~w.ok THEN fail("Overflow", w.g)
           ELSE IF w.crash THEN fail("Crash", w.g)
           ELSE Only({
               IF wrapped.crash THEN fail("Crash", w.g)
               ELSE Only({
                   IF applied.crash THEN fail("Crash", w.g)
                   ELSE Only({
                       IF tables.kind # "Ok" THEN fail(tables.kind, applied.g)
                       ELSE Only({
                           IF ~parsing_table.ok THEN fail("Overflow", parsing_table.g)
                           ELSE IF ~parsing_table.is_ok
                           THEN fail("Internal", parsing_table.g)
                           ELSE [kind |-> "Ok", g |-> parsing_table.g,
                                 parsing_table |-> parsing_table.table,
                                 tables |-> tables.tables,
                                 all_conflicts |-> w.all_conflicts, wrappers |-> ws]
                           : parsing_table \in
                                 {get_ll_parsing_table(applied.g, w.all_conflicts)}})
                       : tables \in {embedded_tables(applied.g, wrapped.wrapped, 1,
                                                     [h \in {} |-> 0])}})
                   : applied \in {apply_wrappers(wrapped.g, wrapped.wrapped,
                                                 Len(wrapped.wrapped))}})
               : wrapped \in {wrap_all(w.g, ws, 1, <<>>)}})
        : w \in {wrapper_rounds(
                    [g |-> first_table.g, all_conflicts |-> Range(first_table.conflicts),
                     new_conflicts |-> {}, wrappers |-> [h \in {} |-> <<>>],
                     ok |-> first_table.ok, crash |-> FALSE],
                    Range(first_table.conflicts))}})
        : first_table \in {get_ll_parsing_table(g, {})}})

(***************************************************************************)
(* parser.rs: find_unique_rule                                             *)
(***************************************************************************)
\* The walk along the BACKTRACK table: [kind, tail]; visited detects a walk
\* that never ends.
RECURSIVE backtrack_walk(_, _, _, _, _, _)
backtrack_walk(g, data, from, tail, current_rule, visited) ==
    IF from[2] \notin DOMAIN data.items THEN [kind |-> "Crash"]
    ELSE IF from \in visited THEN [kind |-> "Hang"]
    ELSE LET item == data.items[from[2]]
             rule == Rule(g, item.rule)
             tail1 == IF rule.id # current_rule
                      THEN tail \o Rule_tail(rule, item.dot + 1) ELSE tail
         IN IF from \in DOMAIN data.backtrack_table
            THEN backtrack_walk(g, data, data.backtrack_table[from], tail1, rule.id,
                                visited \cup {from})
            ELSE [kind |-> "Some", tail |-> tail1]

\* [kind: None | Some | Crash | Hang, rule, tail]
find_unique_rule(g, data, state, token) ==
    IF is_internal(Symbol(g, token)) THEN [kind |-> "None"]
    ELSE IF <<state, token>> \notin DOMAIN data.left_table THEN [kind |-> "None"]
    ELSE LET from == <<state, data.left_table[<<state, token>>]>> IN
         IF from[2] \notin DOMAIN data.items THEN [kind |-> "Crash"]
         ELSE LET item == data.items[from[2]]
                  rule == Rule(g, item.rule)
                  walk == backtrack_walk(g, data, from, Rule_tail(rule, item.dot), rule.id, {})
              IN IF walk.kind # "Some" THEN walk
                 ELSE [kind |-> "Some", rule |-> rule.id, tail |-> walk.tail]

(***************************************************************************)
(* parser.rs: one iteration of each driver loop.  A step returns           *)
(* [done, result, c]: the driver goes on from configuration c, or returns  *)
(* result.                                                                 *)
(***************************************************************************)
Go(c) == [done |-> FALSE, result |-> [kind |-> "None"], c |-> c]
Return(result, c) == [done |-> TRUE, result |-> result, c |-> c]

\* parse_ll: c = [input, stack, rules], the stack a list of symbols.
ll_step(g, parsing_table, c) ==
    IF c.input = <<>> \/ c.stack = <<>>
    THEN Return(finish(g, c.input, c.stack, c.rules), c)
    ELSE LET symbol == Last(c.stack)
             token == Head(c.input)
         IN IF <<symbol, token>> \in DOMAIN parsing_table
            THEN LET rule == parsing_table[<<symbol, token>>] IN
                 Go([c EXCEPT !.stack = Pop(@) \o push_body(Rule(g, rule).body),
                              !.rules = Append(@, rule)])
            ELSE IF symbol # token
            THEN Return(finish(g, c.input, c.stack, c.rules), c)
            ELSE Go([c EXCEPT !.input = Tail(@), !.stack = Pop(@)])

\* A faulty variant of lr_invalid: the front token is not looked at.
lr_invalid_eof(g, c) == Return(ErrEOF, c)

\* The error of an LR parse that is not valid.
lr_invalid(g, c) ==
    Return(IF c.input # <<>> /\ ~is_internal(Symbol(g, Head(c.input)))
           THEN ErrParse(Head(c.input)) ELSE ErrEOF, c)

\* The Reduce arm: [kind: Go | Internal | Crash, stack].
lr_reduce(data, stack, rule, body) ==
    LET r == reduce_rule(stack, body) IN
    IF ~r.ok THEN [kind |-> "Internal", stack |-> r.stack]
    ELSE IF r.stack = <<>> THEN [kind |-> "Crash", stack |-> r.stack]
    ELSE IF <<Last(r.stack)[2], rule.head>> \notin DOMAIN data.goto_table
    THEN [kind |-> "Internal", stack |-> r.stack]
    ELSE [kind |-> "Go",
          stack |-> Append(r.stack, <<rule.head, data.goto_table[<<Last(r.stack)[2], rule.head>>]>>)]

\* A faulty variant of lr_step: a reduction is not added to the rules.
lr_step_unrecorded(g, data, c) ==
    LET state == Last(c.stack)[2]
        token == IF c.input = <<>> THEN NullId ELSE Head(c.input)
    IN IF c.stack = <<>> THEN lr_invalid(g, c)
       ELSE IF <<state, token>> \notin DOMAIN data.action_table THEN lr_invalid(g, c)
       ELSE LET action == data.action_table[<<state, token>>]
                rule == Rule(g, action.arg)
            IN CASE action.kind = "Shift" ->
                      Go([c EXCEPT !.stack = Append(@, <<token, action.arg>>),
                                   !.input = IF @ = <<>> THEN @ ELSE Tail(@)])
                 [] action.kind = "Reduce" ->
                      LET r == lr_reduce(data, c.stack, rule, rule.body) IN
                      IF r.kind = "Go"
                      THEN Go([c EXCEPT !.stack = r.stack])
                      ELSE Return([kind |-> r.kind], [c EXCEPT !.stack = r.stack])
                 [] action.kind = "Accept" ->
                      LET r == reduce_rule(c.stack, <<rule.head>> \o rule.body)
                          c1 == [c EXCEPT !.stack = r.stack, !.rules = Append(@, rule.id)]
                      IN IF ~r.ok THEN Return(ErrInternal, [c EXCEPT !.stack = r.stack])
                         ELSE IF r.stack # <<>> THEN Return(ErrInternal, c1)
                         ELSE Return(OkRules(Reverse(c1.rules)), c1)

\* parse_lr: c = [input, stack, rules], the stack a list of <<symbol, state>>.
lr_step(g, data, c) ==
    LET state == Last(c.stack)[2]
        token == IF c.input = <<>> THEN NullId ELSE Head(c.input)
    IN IF c.stack = <<>> THEN lr_invalid(g, c)
       ELSE IF <<state, token>> \notin DOMAIN data.action_table THEN lr_invalid(g, c)
       ELSE LET action == data.action_table[<<state, token>>]
                rule == Rule(g, action.arg)
            IN CASE action.kind = "Shift" ->
                      Go([c EXCEPT !.stack = Append(@, <<token, action.arg>>),
                                   !.input = IF @ = <<>> THEN @ ELSE Tail(@)])
                 [] action.kind = "Reduce" ->
                      LET r == lr_reduce(data, c.stack, rule, rule.body) IN
                      IF r.kind = "Go"
                      THEN Go([c EXCEPT !.stack = r.stack, !.rules = Append(@, rule.id)])
                      ELSE Return([kind |-> r.kind], [c EXCEPT !.stack = r.stack])
                 [] action.kind = "Accept" ->
                      LET r == reduce_rule(c.stack, <<rule.head>> \o rule.body)
                          c1 == [c EXCEPT !.stack = r.stack, !.rules = Append(@, rule.id)]
                      IN IF ~r.ok THEN Return(ErrInternal, [c EXCEPT !.stack = r.stack])
                         ELSE IF r.stack # <<>> THEN Return(ErrInternal, c1)
                         ELSE Return(OkRules(Reverse(c1.rules)), c1)

\* A faulty variant of lllr_step: a matched token is popped from the stack
\* and left in the input.
lllr_step_keep_token(g, parsing_table, tables, c) ==
    IF c.input = <<>> \/ c.stack = <<>>
    THEN Return(finish(g, c.input, c.stack, c.rules), c)
    ELSE LET symbol == Last(c.stack)[1]
             token == Head(c.input)
         IN IF <<symbol, token>> \in DOMAIN parsing_table
            THEN LET rule == parsing_table[<<symbol, token>>]
                     body == push_body(Rule(g, rule).body)
                 IN Go([c EXCEPT !.stack = Pop(@) \o [i \in 1..Len(body) |-> <<body[i], 0>>],
                                 !.rules = Append(@, rule)])
            ELSE IF symbol \in DOMAIN tables
            THEN Go([c EXCEPT !.input = <<EndId>> \o @, !.mode = "lr", !.symbol = symbol,
                              !.lr_stack = c.stack, !.lr_rules = <<>>])
            ELSE IF symbol # token
            THEN Return(finish(g, c.input, c.stack, c.rules), c)
            ELSE Go([c EXCEPT !.stack = Pop(@)])

\* parse_lllr, the LL part of an iteration: c = [input, stack, rules, mode,
\* symbol, lr_stack, lr_rules], the stacks lists of <<symbol, number>>.
lllr_step(g, parsing_table, tables, c) ==
    IF c.input = <<>> \/ c.stack = <<>>
    THEN Return(finish(g, c.input, c.stack, c.rules), c)
    ELSE LET symbol == Last(c.stack)[1]
             token == Head(c.input)
         IN IF <<symbol, token>> \in DOMAIN parsing_table
            THEN LET rule == parsing_table[<<symbol, token>>]
                     body == push_body(Rule(g, rule).body)
                 IN Go([c EXCEPT !.stack = Pop(@) \o [i \in 1..Len(body) |-> <<body[i], 0>>],
                                 !.rules = Append(@, rule)])
            ELSE IF symbol \in DOMAIN tables
            THEN Go([c EXCEPT !.input = <<EndId>> \o @, !.mode = "lr", !.symbol = symbol,
                              !.lr_stack = c.stack, !.lr_rules = <<>>])
            ELSE IF symbol # token
            THEN Return(finish(g, c.input, c.stack, c.rules), c)
            ELSE Go([c EXCEPT !.input = Tail(@), !.stack = Pop(@)])

\* The end of a valid embedded parse: the LR rules are reversed and appended.
lllr_resume(c) ==
    Go([c EXCEPT !.rules = @ \o Reverse(c.lr_rules), !.mode = "ll",
                 !.lr_stack = <<>>, !.lr_rules = <<>>])

\* parse_lllr, one iteration of the embedded LR loop.
lllr_lr_step(g, tables, c) ==
    LET data == tables[c.symbol]
        state == Last(c.lr_stack)[2]
        token == IF c.input = <<>> THEN NullId ELSE Head(c.input)
        found == find_unique_rule(g, data, state, token)
    IN IF c.lr_stack = <<>> THEN lr_invalid(g, c)
       ELSE IF found.kind \in {"Crash", "Hang"} THEN Return([kind |-> found.kind], c)
       ELSE IF found.kind = "Some"
       THEN LET accept_rule == Rules(g, c.symbol)[1].id IN
            lllr_resume([c EXCEPT
                !.lr_rules = @ \o <<found.rule>> \o
                    (IF accept_rule # found.rule THEN <<accept_rule>> ELSE <<>>),
                !.stack = Pop(@) \o
                    [i \in 1..Len(found.tail) |-> <<Reverse(found.tail)[i], 0>>]])
       ELSE IF <<state, token>> \notin DOMAIN data.action_table THEN lr_invalid(g, c)
       ELSE LET action == data.action_table[<<state, token>>]
                rule == Rule(g, action.arg)
            IN CASE action.kind = "Shift" ->
                      Go([c EXCEPT !.lr_stack = Append(@, <<token, action.arg>>),
                                   !.input = IF @ = <<>> THEN @ ELSE Tail(@)])
                 [] action.kind = "Reduce" ->
                      LET body == IF rule.head \in DOMAIN tables
                                  THEN Tail(rule.body) ELSE rule.body
                          r == lr_reduce(data, c.lr_stack, rule, body)
                      IN IF r.kind = "Go"
                         THEN Go([c EXCEPT !.lr_stack = r.stack,
                                           !.lr_rules = Append(@, rule.id)])
                         ELSE Return([kind |-> r.kind], [c EXCEPT !.lr_stack = r.stack])
                 [] action.kind = "Accept" ->
                      LET r == reduce_rule(c.lr_stack, <<rule.head>> \o rule.body) IN
                      IF ~r.ok THEN Return(ErrInternal, [c EXCEPT !.lr_stack = r.stack])
                      ELSE lllr_resume([c EXCEPT !.lr_stack = r.stack,
                                                 !.lr_rules = Append(@, rule.id)])

(***************************************************************************)
(* The grammars and inputs of the runs.  A source is the decoded grammar   *)
(* file: the start symbol, the "rules" table in key order, and the inputs  *)
(* tried on it besides the short ones.                                     *)
(***************************************************************************)
MaxRules == 3
MaxTokens == 3

Source(start, defs, inputs) == [start |-> start, defs |-> defs, inputs |-> inputs]

Catalog ==
    { Source("S", << <<"S", <<"a", "S", "b">> >>, <<"S", <<>> >> >>,
             {<<"a", "a", "b", "b">>}),
      Source("E", << <<"E", <<"E", "+", "T">> >>, <<"E", <<"T">> >>,
                     <<"F", <<"(", "E", ")">> >>, <<"F", <<"id">> >>,
                     <<"T", <<"T", "*", "F">> >>, <<"T", <<"F">> >> >>,
             {<<"id", "+", "id", "*", "id">>}),
      Source("S", << <<"A", <<"c">> >>, <<"B", <<"d">> >>,
                     <<"S", <<"a", "A">> >>, <<"S", <<"a", "B">> >> >>, {}),
      Source("S", << <<"S", <<"(", "S", ")">> >>, <<"S", <<>> >> >>,
             {<<"(", "(", ")", ")">>}),
      Source("S", << <<"A", <<"a">> >>, <<"B", <<"b">> >>, <<"S", <<"A", "B">> >> >>, {}),
      Source("S", << <<"S", <<"U", "x">> >>, <<"U", <<"x">> >>, <<"V", <<"x">> >>,
                     <<"W", <<"x">> >> >>, {}),
      Source("X", << <<"X", <<"X", "x">> >> >>, {}),
      Source("S", << <<"A", <<"B">> >>, <<"B", <<"b">> >>, <<"S", <<"A">> >> >>, {}),
      Source("S", << <<"A", <<"B", "x">> >>, <<"B", <<"A", "y">> >>,
                     <<"S", <<"a">> >>, <<"S", <<"A">> >> >>, {}),
      Source("A", << <<"A", <<"d">> >>, <<"A", <<"B", "a">> >>, <<"A", <<"e">> >>,
                     <<"B", <<"A", "b">> >> >>, {}),
      Source("A", << <<"A", <<"B", "a">> >>, <<"B", <<"A", "b">> >>,
                     <<"B", <<"c">> >> >>, {}),
      Source("S", << <<"A", <<"d">> >>, <<"A", <<"B", "a">> >>, <<"A", <<"e">> >>,
                     <<"B", <<"A", "b">> >>, <<"S", <<"B", "A", "B">> >> >>, {}),
      Source("S", << <<"A", <<"a">> >>, <<"S", <<"A", "A">> >> >>, {}),
      Source("S", << <<"A", <<"B", "W">> >>, <<"B", <<"A", "y">> >>, <<"B", <<"z">> >>,
                     <<"S", <<"B", "x">> >>, <<"W", <<"w">> >>, <<"W", <<"x">> >> >>, {}),
      Source("S", << <<"A", <<"B", "a">> >>, <<"B", <<"A", "b">> >>, <<"B", <<"c">> >>,
                     <<"C", <<"c">> >>, <<"S", <<"C", "A">> >> >>, {}),
      Source("S", << <<"A", <<"d">> >>, <<"A", <<"B", "a">> >>, <<"A", <<"x", "A", "y">> >>,
                     <<"B", <<"A", "b">> >>, <<"S", <<"A", "c">> >> >>, {}),
      Source("H", << <<"A", <<"a">> >>, <<"A", <<"Y", "b">> >>, <<"H", <<"X", "Y", "c">> >>,
                     <<"X", <<"X", "a">> >>, <<"X", <<"p">> >>, <<"Y", <<"A", "b">> >> >>, {}) }

\* The rules the generated grammars are made of, in key order.
RulePool ==
    << <<"A", <<"a">> >>, <<"A", <<>> >>, <<"A", <<"A", "a">> >>, <<"A", <<"S", "b">> >>,
       <<"B", <<"b">> >>,
       <<"S", <<"A">> >>, <<"S", <<"a", "S", "b">> >>, <<"S", <<>> >>,
       <<"S", <<"S", "a">> >>, <<"S", <<"A", "b">> >>, <<"S", <<"b">> >> >>

Generated ==
    {Source("S", [i \in 1..Cardinality(sel) |-> RulePool[to_sorted_vec(sel)[i]]], {}) :
        sel \in {x \in SUBSET (1..Len(RulePool)) : Cardinality(x) \in 1..MaxRules}}

Sources == Catalog \cup Generated

\* The symbols the lexer can return: the terminals read from the grammar file.
Terminals(g) == {id \in 0..(Len(g.symbols) - 1) : Symbol(g, id).kind = "Terminal"}

RECURSIVE SeqsUpTo(_, _)
SeqsUpTo(S, n) ==
    IF n = 0 THEN {<<>>}
    ELSE LET shorter == SeqsUpTo(S, n - 1) IN
         shorter \cup {Append(t, x) : t \in shorter, x \in S}

\* The token sequences the lexer hands to the drivers: symbol IDs of terminals.
Inputs(src, g) ==
    SeqsUpTo(Terminals(g), MaxTokens) \cup
        {[i \in 1..Len(w) |-> id_of(g.symbols, w[i])] : w \in src.inputs}

(***************************************************************************)
(* The state machine: a grammar is loaded and verified, the tables of the  *)
(* three drivers are built, each from the grammar as loaded, and the       *)
(* drivers run one after the other on the same tokens, one loop iteration  *)
(* per step.  The tables do not depend on the tokens, which are chosen     *)
(* where the drivers call get_input.                                       *)
(***************************************************************************)
VARIABLES source, grammar, verified, phase, tokens, ll, lr, lllr, call

vars == <<source, grammar, verified, phase, tokens, ll, lr, lllr, call>>

None == [kind |-> "None"]
Idle == [pc |-> "idle", result |-> None, steps |-> <<>>]
Done(result) == [pc |-> "done", result |-> result, steps |-> <<>>]

\* The driver that runs next.
next_phase(l, r, m) ==
    IF l.pc = "run" THEN "ll" ELSE IF r.pc = "run" THEN "lr"
    ELSE IF m.pc = "run" THEN "lllr" ELSE "done"

Init ==
    /\ source \in Sources
    /\ grammar = read_file(source.start, source.defs, EmptyMap)
    /\ verified = None
    /\ phase = "verify"
    /\ tokens = <<>>
    /\ ll = Idle
    /\ lr = Idle
    /\ lllr = Idle
    /\ call = None

Verify ==
    /\ phase = "verify"
    /\ verified' \in verify(grammar)
    /\ phase' = "build_ll"
    /\ UNCHANGED <<call, source, grammar, tokens, ll, lr, lllr>>

\* parse_ll up to get_input.
BuildLL ==
    /\ phase = "build_ll"
    /\ \E t \in {get_ll_parsing_table(grammar, {})} :
       ll' = IF ~t.ok THEN Done(Crash)
             ELSE IF ~t.is_ok
             THEN [Done(ErrConflict(t.conflicts[1])) EXCEPT !.pc = "conflict"]
                      @@ [g |-> t.g, table |-> t.table, conflicts |-> t.conflicts]
             ELSE [Idle EXCEPT !.pc = "ready"]
                      @@ [g |-> t.g, table |-> t.table, conflicts |-> t.conflicts]
    /\ phase' = "build_lr"
    /\ UNCHANGED <<call, source, grammar, verified, tokens, lr, lllr>>

\* The automaton of the augmentation rule and its tables, for parse_lr.
BuildLR ==
    /\ phase = "build_lr"
    /\ \E d \in {Automaton_data(Automaton_new(grammar, 0))} :
       lr' = IF ~d.ok \/ d.crash THEN Done(Crash)
             ELSE IF ~d.is_ok
             THEN Done([kind |-> "BuildConflict", state |-> d.state, symbol |-> d.symbol])
             ELSE [Idle EXCEPT !.pc = "ready"] @@ [g |-> d.data.grammar, data |-> d.data]
    /\ phase' = "build_lllr"
    /\ UNCHANGED <<call, source, grammar, verified, tokens, ll, lllr>>

\* parse_lllr up to get_input.
BuildLLLR ==
    /\ phase = "build_lllr"
    /\ \E r \in {get_lllr_parsing_tables(grammar)} :
       lllr' = IF r.kind = "Ok"
               THEN [Idle EXCEPT !.pc = "ready"]
                        @@ [g |-> r.g, table |-> r.parsing_table, tables |-> r.tables,
                            all_conflicts |-> r.all_conflicts, wrappers |-> r.wrappers]
               ELSE Done([kind |-> IF r.kind = "Overflow" THEN "Crash" ELSE r.kind])
                        @@ [g |-> r.g]
    /\ phase' = "lex"
    /\ UNCHANGED <<call, source, grammar, verified, tokens, ll, lr>>

Start(d, c) == IF d.pc = "ready" THEN [d EXCEPT !.pc = "run"] @@ [c |-> c] ELSE d

\* get_input and the initial stacks of the drivers.
Lex ==
    /\ phase = "lex"
    /\ tokens' \in Inputs(source, grammar)
    /\ LET input == get_input(tokens') IN
       /\ ll' = Start(ll, [input |-> input, stack |-> <<StartId>>, rules |-> <<>>])
       /\ lr' = Start(lr, [input |-> input, stack |-> << <<StartId, 0>> >>, rules |-> <<>>])
       /\ lllr' = Start(lllr, [input |-> input, stack |-> << <<StartId, 0>> >>,
                               rules |-> <<>>, mode |-> "ll", symbol |-> StartId,
                               lr_stack |-> <<>>, lr_rules |-> <<>>])
    /\ phase' = next_phase(ll', lr', lllr')
    /\ UNCHANGED <<call, source, grammar, verified>>

\* The driver after a step: it goes on, or it has returned.
After(d, s, stack) ==
    [d EXCEPT !.c = s.c, !.result = s.result,
              !.pc = IF s.done THEN "done" ELSE "run",
              !.steps = Append(@, <<d.c.input, stack>>)]

symbols_of(stack) == [i \in 1..Len(stack) |-> stack[i][1]]

ParseLL ==
    /\ phase = "ll"
    /\ ll' = After(ll, ll_step(ll.g, ll.table, ll.c), ll.c.stack)
    /\ phase' = next_phase(ll', lr, lllr)
    /\ UNCHANGED <<call, source, grammar, verified, tokens, lr, lllr>>

ParseLR ==
    /\ phase = "lr"
    /\ lr' = After(lr, lr_step(lr.g, lr.data, lr.c), symbols_of(lr.c.stack))
    /\ phase' = next_phase(ll, lr', lllr)
    /\ UNCHANGED <<call, source, grammar, verified, tokens, ll, lllr>>

\* An iteration of the outer loop of parse_lllr, up to the start of the
\* embedded LR parser.
ParseLLLR ==
    /\ phase = "lllr"
    /\ lllr.c.mode = "ll"
    /\ lllr' = After(lllr, lllr_step(lllr.g, lllr.table, lllr.tables, lllr.c),
                     symbols_of(lllr.c.stack))
    /\ phase' = next_phase(ll, lr, lllr')
    /\ UNCHANGED <<call, source, grammar, verified, tokens, ll, lr>>

\* An iteration of the embedded LR loop of parse_lllr.
ParseLLLR_LR ==
    /\ phase = "lllr"
    /\ lllr.c.mode = "lr"
    /\ lllr' = [After(lllr, lllr_lr_step(lllr.g, lllr.tables, lllr.c),
                      symbols_of(lllr.c.stack)) EXCEPT !.steps = lllr.steps]
    /\ phase' = next_phase(ll, lr, lllr')
    /\ UNCHANGED <<call, source, grammar, verified, tokens, ll, lr>>

Next ==
    \/ Verify
    \/ BuildLL
    \/ BuildLR
    \/ BuildLLLR
    \/ Lex
    \/ ParseLL
    \/ ParseLR
    \/ ParseLLLR
    \/ ParseLLLR_LR

Spec == Init /\ [][Next]_vars

(***************************************************************************)
(* Derivations, for the properties of the rule sequences.                  *)
(***************************************************************************)
\* The sentential form after replaying the rules, each on the leftmost
\* nonterminal; <<>> when a rule is not one of the leftmost nonterminal.
RECURSIVE leftmost_replay(_, _, _)
leftmost_replay(g, form, rules) ==
    IF rules = <<>> THEN form
    ELSE LET nts == {i \in 1..Len(form) : Symbol(g, form[i]).kind \in {"Start", "NonTerminal"}}
             rule == Rule(g, Head(rules))
         IN IF nts = {} \/ form[Min(nts)] # rule.head THEN <<>>
            ELSE leftmost_replay(g,
                     SubSeq(form, 1, Min(nts) - 1)
                         \o SelectSeq(rule.body, LAMBDA x : x # NullId)
                         \o SubSeq(form, Min(nts) + 1, Len(form)),
                     Tail(rules))

is_leftmost_derivation(g, rules, input) ==
    leftmost_replay(g, <<StartId>>, rules) = input

count(rules, id) == Cardinality({i \in 1..Len(rules) : rules[i] = id})

names_to_ids(g, w) == [i \in 1..Len(w) |-> id_of(g.symbols, w[i])]

returned(d) == d.pc = "done"

\* C1: whenever parse_ll returns Ok, replaying the returned rules from the
\* start symbol, each on the leftmost nonterminal, gives End, the tokens, End.
C1_LLLeftmost ==
    (returned(ll) /\ ll.result.kind = "Ok")
        => is_leftmost_derivation(ll.g, ll.result.rules, get_input(tokens))

\* parse_ll has accepted a a b b for S -> a S b | eps with rules 0, 1, 1, 2.
C1_Witness ==
    /\ returned(ll)
    /\ source.defs = << <<"S", <<"a", "S", "b">> >>, <<"S", <<>> >> >>
    /\ tokens = names_to_ids(grammar, <<"a", "a", "b", "b">>)
    /\ ll.result = OkRules(<<0, 1, 1, 2>>)

\* C2: whenever parse_lr returns Ok, replaying the returned rules from the
\* start symbol, each on the leftmost nonterminal, gives End, the tokens, End.
C2_LRLeftmost ==
    (returned(lr) /\ lr.result.kind = "Ok")
        => is_leftmost_derivation(lr.g, lr.result.rules, get_input(tokens))

\* C5: when parse_ll and parse_lr both return Ok on the same tokens, every
\* rule occurs as often in one returned sequence as in the other.
C5_SameMultiset ==
    (phase = "done" /\ ll.result.kind = "Ok" /\ lr.result.kind = "Ok")
        => \A id \in 0..(Len(grammar.rules) - 1) :
               count(ll.result.rules, id) = count(lr.result.rules, id)

\* Both drivers have accepted a b for S -> A B; A -> a; B -> b, with the
\* rules in different orders.
C5_Witness ==
    /\ phase = "done"
    /\ ll.result = OkRules(<<0, 3, 1, 2>>)
    /\ lr.result = OkRules(<<0, 3, 2, 1>>)

(***************************************************************************)
(* The violations of section 4.1, stated on the rules of the grammar.      *)
(***************************************************************************)
heads(g) == {g.rules[i].head : i \in 1..Len(g.rules)}
bodies_of(g, head) ==
    {g.rules[i].body : i \in {j \in 1..Len(g.rules) : g.rules[j].head = head}}
in_some_body(g, id) == \E i \in 1..Len(g.rules) : id \in Range(g.rules[i].body)
user_nonterminals(g) ==
    {id \in 0..(Len(g.symbols) - 1) : Symbol(g, id).kind = "NonTerminal"}

NoStart(g) == g.start_symbol \notin heads(g)
Unreachable(g) ==
    {U \in user_nonterminals(g) \cap heads(g) :
        ~in_some_body(g, U) /\ U # g.start_symbol}
\* The nonterminals whose every rule starts with the nonterminal.
LeftRecursive(g) ==
    {X \in user_nonterminals(g) \cap heads(g) : \A b \in bodies_of(g, X) : b[1] = X}
\* The nonterminals with some rule that starts with the nonterminal.
SomeRuleLeftRecursive(g) ==
    {X \in user_nonterminals(g) \cap heads(g) : \E b \in bodies_of(g, X) : b[1] = X}

verify_returned == phase # "verify"

\* C8: verify returns Unreachable only when the start symbol has a rule,
\* LeftRecursive only when moreover no nonterminal is unreachable, and
\* NotRealizable only when moreover no nonterminal has all its rules
\* starting with itself; for X -> X x alone it returns LeftRecursive(X).
C8_VerifyOrder ==
    verify_returned =>
        /\ verified.kind = "Unreachable" => ~NoStart(grammar)
        /\ verified.kind = "LeftRecursive" =>
               ~NoStart(grammar) /\ Unreachable(grammar) = {}
        /\ verified.kind = "NotRealizable" =>
               /\ ~NoStart(grammar) /\ Unreachable(grammar) = {}
               /\ LeftRecursive(grammar) = {}
        /\ source.defs = << <<"X", <<"X", "x">> >> >> =>
               verified = Err("LeftRecursive", grammar.start_symbol)

\* verify has returned LeftRecursive(X) for X -> X x, which is not
\* realizable either.
C8_Witness ==
    /\ verify_returned
    /\ source.defs = << <<"X", <<"X", "x">> >> >>
    /\ verified = Err("LeftRecursive", grammar.start_symbol)

C10_Unreachable ==
    (verify_returned /\ ~NoStart(grammar))
        => /\ verified.kind = "Unreachable" <=> Unreachable(grammar) # {}
           /\ verified.kind = "Unreachable" => verified.symbol \in Unreachable(grammar)

\* verify has returned Unreachable(V) for a grammar where V -> x and W -> x
\* are in no body.
C10_Witness ==
    /\ verify_returned
    /\ Cardinality(Unreachable(grammar)) = 2
    /\ verified.kind = "Unreachable"
    /\ Symbol_name(Symbol(grammar, verified.symbol)) = "V"

(***************************************************************************)
(* The LL table and the three drivers.                                     *)
(***************************************************************************)
\* parse_ll has a table: get_ll_parsing_table has returned Ok.
ll_built == ll.pc \in {"ready", "run", "done"} /\ "table" \in DOMAIN ll

\* FIRST(body) of a rule, and the symbols for which the code enters the rule
\* in the table.
first_of_body(g, rule) == first_sequence(g, rule.body).val
claimed(g, rule) ==
    IF NullId \in first_of_body(g, rule) THEN follow(g, rule.head).val
    ELSE first_of_body(g, rule)
\* The cells of a rule in the table of the specification.
cells_of(g, rule) ==
    {<<rule.head, s>> : s \in (first_of_body(g, rule) \ {NullId}) \cup
        (IF NullId \in first_of_body(g, rule) THEN follow(g, rule.head).val ELSE {})}
\* The heads with two rules that claim one cell.
colliding_heads(g) ==
    {g.rules[i].head : i \in {j \in 1..Len(g.rules) :
        \E k \in 1..Len(g.rules) :
            /\ k # j /\ g.rules[k].head = g.rules[j].head
            /\ claimed(g, g.rules[j]) \cap claimed(g, g.rules[k]) # {}}}

G3_defs ==
    << <<"A", <<"c">> >>, <<"B", <<"d">> >>, <<"S", <<"a", "A">> >>, <<"S", <<"a", "B">> >> >>

\* The rules of the grammar file in a returned sequence: the augmentation
\* rule and the wrapper rules are left out.
user_rules(rules) ==
    SelectSeq(rules, LAMBDA id : id # 0 /\ id < Len(grammar.rules))

\* C3: for S -> a A | a B; A -> c; B -> d and the input a c, parse_ll fails
\* with Conflict(S), parse_lllr returns Ok with the rules S -> a A, A -> c
\* besides the augmentation and wrapper rules, and parse_lr returns Ok with
\* the same two rules.
C3_Scenario ==
    (phase = "done" /\ source.defs = G3_defs
     /\ tokens = names_to_ids(grammar, <<"a", "c">>))
        => /\ ll.result = ErrConflict(grammar.start_symbol)
           /\ lr.result.kind = "Ok" /\ user_rules(lr.result.rules) = <<3, 1>>
           /\ lllr.result.kind = "Ok" /\ user_rules(lllr.result.rules) = <<3, 1>>

\* C4: when the LL table has no conflict, parse_lllr adds no symbol and no
\* rule to the grammar, has no embedded table, has the LL table of parse_ll,
\* goes through the inputs and stacks parse_ll goes through, and returns
\* what parse_ll returns.
C4_LLLRDegenerates ==
    (ll_built /\ lllr.pc # "idle")
        => /\ lllr.pc # "done" \/ lllr.result.kind \notin {"Crash", "Internal"}
           /\ lllr.g.symbols = grammar.symbols
           /\ lllr.g.rules = grammar.rules
           /\ DOMAIN lllr.tables = {}
           /\ lllr.table = ll.table
           /\ Len(lllr.steps) <= Len(ll.steps)
           /\ lllr.steps = SubSeq(ll.steps, 1, Len(lllr.steps))
           /\ phase = "done" => lllr.steps = ll.steps /\ lllr.result = ll.result

\* parse_ll and parse_lllr have both accepted a a b b for S -> a S b | eps,
\* through the same steps.
C4_Witness ==
    /\ phase = "done"
    /\ ll_built
    /\ source.defs = << <<"S", <<"a", "S", "b">> >>, <<"S", <<>> >> >>
    /\ tokens = names_to_ids(grammar, <<"a", "a", "b", "b">>)
    /\ ll.result = OkRules(<<0, 1, 1, 2>>)
    /\ lllr.result = ll.result
    /\ Len(lllr.steps) = Len(ll.steps)
    /\ Len(ll.steps) > Len(tokens)

\* C6: a table without conflict has, for every rule, the cell of every
\* symbol of FIRST(body) but the null symbol, and of every symbol of
\* FOLLOW(head) when FIRST(body) has the null symbol; it has no other cell.
C6_TableCells ==
    ll_built =>
        /\ \A i \in 1..Len(ll.g.rules) : \A cell \in cells_of(ll.g, ll.g.rules[i]) :
               cell \in DOMAIN ll.table /\ ll.table[cell] = ll.g.rules[i].id
        /\ DOMAIN ll.table \subseteq
               UNION {cells_of(ll.g, ll.g.rules[i]) : i \in 1..Len(ll.g.rules)}

\* C7: get_ll_parsing_table returns the conflicted heads, sorted, exactly
\* when two rules claim one cell; parse_ll then fails with Conflict of the
\* least of them and takes no step; a table handed to the driver has every
\* cell claimed by one rule only.
C7_Conflicts ==
    (ll.pc # "idle" /\ "table" \in DOMAIN ll) =>
        /\ ll.pc = "conflict" <=> colliding_heads(ll.g) # {}
        /\ ll.pc = "conflict" =>
               /\ Range(ll.conflicts) = colliding_heads(ll.g)
               /\ \A i \in 1..(Len(ll.conflicts) - 1) : ll.conflicts[i] < ll.conflicts[i + 1]
               /\ ll.result = ErrConflict(Min(colliding_heads(ll.g)))
               /\ ll.steps = <<>>
               /\ "c" \notin DOMAIN ll
        /\ ll.pc # "conflict" =>
               \A cell \in DOMAIN ll.table :
                   Cardinality({i \in 1..Len(ll.g.rules) :
                       /\ ll.g.rules[i].head = cell[1]
                       /\ cell[2] \in claimed(ll.g, ll.g.rules[i])}) = 1

\* parse_ll has failed with Conflict(S) on a c for S -> a A | a B; A -> c;
\* B -> d, without a step.
C7_Witness ==
    /\ phase = "done"
    /\ source.defs = G3_defs
    /\ tokens = names_to_ids(grammar, <<"a", "c">>)
    /\ ll.pc = "conflict"
    /\ ll.conflicts = <<grammar.start_symbol>>
    /\ ll.result = ErrConflict(grammar.start_symbol)
    /\ ll.steps = <<>>

(***************************************************************************)
(* Realizability, stated on the rules of the grammar.                      *)
(***************************************************************************)
\* The nonterminals that derive a string of terminals: the least set closed
\* under "some rule of X has only terminals and members of the set".
RECURSIVE Realizable(_, _)
Realizable(g, known) ==
    LET more == {X \in user_nonterminals(g) : \E b \in bodies_of(g, X) :
                    \A id \in Range(b) :
                        is_terminal(Symbol(g, id)) \/ id \in known}
    IN IF more \subseteq known THEN known ELSE Realizable(g, known \cup more)

\* The start symbol and the nonterminals of the bodies that derive no
\* string of terminals.
NotRealizable ==
    {X \in user_nonterminals(grammar) :
        X = grammar.start_symbol \/ in_some_body(grammar, X)}
        \ Realizable(grammar, {})

\* C11: when the start symbol has rules, every head is reachable and no
\* head is left-recursive, verify returns NotRealizable exactly when some
\* nonterminal (the start symbol or one of a body) derives no string of
\* terminals, and names the one with the smallest ID; otherwise it
\* returns Ok.
C11_NotRealizable ==
    (/\ verify_returned
     /\ ~NoStart(grammar)
     /\ Unreachable(grammar) = {}
     /\ LeftRecursive(grammar) = {}) =>
        IF NotRealizable # {}
        THEN verified = Err("NotRealizable", Min(NotRealizable))
        ELSE verified = Ok

\* Two nonterminals are not realizable, the smaller one is not the start
\* symbol, and verify has named it.
C11_Witness ==
    /\ verify_returned
    /\ verified.kind = "NotRealizable"
    /\ Cardinality(NotRealizable) = 2
    /\ verified.symbol # grammar.start_symbol

\* The removal loop needed a second round and verify returned Ok.
C11_WitnessRounds ==
    /\ verify_returned
    /\ verified = Ok
    /\ remove_realizable_once(grammar, not_terminal_only(grammar)) # {}

(***************************************************************************)
(* grammar.rs: the FIRST and FOLLOW calls on a verified grammar, in any    *)
(* order.  grammar carries the two caches from call to call; call is the   *)
(* last call, [op, arg, val, ok, wraps, calls], ok = FALSE when it did not *)
(* return; wraps and calls count the wraps and the calls made so far.      *)
(***************************************************************************)
MaxWraps == 1
MaxCalls == 3

Returned(op, arg, r, last) ==
    [op |-> op, arg |-> arg, val |-> r.val, ok |-> r.ok, wraps |-> last.wraps,
     calls |-> last.calls + 1]

\* The tails of the rule bodies, the arguments of first_sequence.
Tails(g) ==
    UNION {{Rule_tail(g.rules[i], idx) : idx \in 0..(Len(g.rules[i].body) - 1)} :
              i \in 1..Len(g.rules)}

\* The sequences wrap_symbols is called with: the first symbols of a tail
\* that starts with a nonterminal.
Prefixes(g) ==
    UNION {{SubSeq(t, 1, n) : n \in 1..Len(t)} :
              t \in {u \in Tails(g) : is_nonterminal(Symbol(g, u[1]))}}

SetsInit ==
    /\ source \in Sources
    /\ grammar = read_file(source.start, source.defs, EmptyMap)
    /\ Ok \in verify(grammar)
    /\ verified = Ok
    /\ phase = "sets"
    /\ tokens = <<>>
    /\ ll = Idle
    /\ lr = Idle
    /\ lllr = Idle
    /\ call = [op |-> "new", arg |-> 0, val |-> {}, ok |-> TRUE, wraps |-> 0,
               calls |-> 0]

CallFirst ==
    /\ phase = "sets" /\ call.ok /\ call.calls < MaxCalls
    /\ \E symbol \in 0..(Len(grammar.symbols) - 1) :
       \E r \in {first(grammar, symbol)} :
          /\ grammar' = r.g
          /\ call' = Returned("first", symbol, r, call)
    /\ UNCHANGED <<source, verified, phase, tokens, ll, lr, lllr>>

CallFollow ==
    /\ phase = "sets" /\ call.ok /\ call.calls < MaxCalls
    /\ \E symbol \in 0..(Len(grammar.symbols) - 1) :
       \E r \in {follow(grammar, symbol)} :
          /\ grammar' = r.g
          /\ call' = Returned("follow", symbol, r, call)
    /\ UNCHANGED <<source, verified, phase, tokens, ll, lr, lllr>>

CallFirstSequence ==
    /\ phase = "sets" /\ call.ok /\ call.calls < MaxCalls
    /\ \E symbols \in Tails(grammar) :
       \E r \in {first_sequence(grammar, symbols)} :
          /\ grammar' = r.g
          /\ call' = Returned("first_sequence", symbols, r, call)
    /\ UNCHANGED <<source, verified, phase, tokens, ll, lr, lllr>>

CallFirstFollow ==
    /\ phase = "sets" /\ call.ok /\ call.calls < MaxCalls
    /\ \E i \in 1..Len(grammar.rules) : \E idx \in 0..Len(grammar.rules[i].body) :
       \E r \in {first_follow(grammar, Rule_tail(grammar.rules[i], idx),
                              grammar.rules[i].head)} :
          /\ grammar' = r.g
          /\ call' = Returned("first_follow",
                              <<Rule_tail(grammar.rules[i], idx), grammar.rules[i].head>>,
                              r, call)
    /\ UNCHANGED <<source, verified, phase, tokens, ll, lr, lllr>>

CallWrapSymbols ==
    /\ phase = "sets" /\ call.ok /\ call.calls < MaxCalls
    /\ call.wraps < MaxWraps
    /\ \E symbols \in Prefixes(grammar) :
       \E w \in {wrap_symbols(grammar, symbols, <<EndId>>)} :
          /\ ~w.crash
          /\ grammar' = w.g
          /\ call' = [op |-> "wrap_symbols", arg |-> symbols, val |-> w.rule,
                      ok |-> TRUE, wraps |-> call.wraps + 1, calls |-> call.calls + 1]
    /\ UNCHANGED <<source, verified, phase, tokens, ll, lr, lllr>>

SetsNext ==
    \/ CallFirst
    \/ CallFollow
    \/ CallFirstSequence
    \/ CallFirstFollow
    \/ CallWrapSymbols

SetsSpec == SetsInit /\ [][SetsNext]_vars

(***************************************************************************)
(* The classical FIRST sets, stated on the rules of the grammar.           *)
(***************************************************************************)
\* FIRST of body[k..] under the sets F; NullId stands for the empty string.
RECURSIVE SeqFirst(_, _, _)
SeqFirst(F, body, k) ==
    IF k > Len(body) THEN {NullId}
    ELSE IF NullId \in F[body[k]]
         THEN (F[body[k]] \ {NullId}) \cup SeqFirst(F, body, k + 1)
         ELSE F[body[k]]

\* The least sets closed under the rules, from F.
RECURSIVE FirstSets(_, _)
FirstSets(g, F) ==
    LET G == [s \in DOMAIN F |->
                 IF is_terminal(Symbol(g, s)) THEN {s}
                 ELSE F[s] \cup UNION {SeqFirst(F, b, 1) : b \in bodies_of(g, s)}]
    IN IF G = F THEN F ELSE FirstSets(g, G)

ClassicalFirst(g) == FirstSets(g, [s \in 0..(Len(g.symbols) - 1) |-> {}])

\* C12: before any wrap, first(X) returns the classical FIRST set of X, and
\* every FIRST set the cache then holds is the classical one.
C12_FirstComplete ==
    (call.op = "first" /\ call.ok /\ call.wraps = 0) =>
        /\ call.val = ClassicalFirst(grammar)[call.arg]
        /\ \A s \in DOMAIN grammar.first :
               grammar.first[s] = ClassicalFirst(grammar)[s]

\* C13: every call of first returns.
C13_FirstReturns == call.op = "first" => call.ok

\* The FOLLOW sets left by follow: contain End for the start symbol, are
\* closed under the rules with the FIRST sets FS, and hold no NullId.
FollowClosed(g, FS) ==
    /\ EndId \in g.follow[g.start_symbol]
    /\ \A i \in 1..Len(g.rules) : \A k \in 1..Len(g.rules[i].body) :
          LET B == g.rules[i].body[k]
              beta == SeqFirst(FS, g.rules[i].body, k + 1)
          IN ~is_terminal(Symbol(g, B)) =>
                 /\ beta \ {NullId} \subseteq g.follow[B]
                 /\ NullId \in beta => g.follow[g.rules[i].head] \subseteq g.follow[B]
    /\ \A s \in DOMAIN g.follow : NullId \notin g.follow[s]

\* C14: after follow has returned, FOLLOW(start symbol) contains End, for
\* every rule A -> alpha B beta with B a nonterminal FOLLOW(B) contains
\* FIRST(beta) without the empty string, and FOLLOW(A) when beta is empty
\* or nullable, and no FOLLOW set contains the empty string.
C14_FollowClosed ==
    (call.op = "follow" /\ call.ok /\ call.wraps = 0) =>
        FollowClosed(grammar, ClassicalFirst(grammar))

\* The grammar with the same symbols and rules and empty caches.
Uncached(g) == [g EXCEPT !.first = EmptyMap, !.follow = EmptyMap]

\* C15: whatever calls came before, first(X) and follow(X) return what they
\* return on the grammar with the same symbols and rules and empty caches.
C15_CachesPure ==
    /\ (call.op = "first" /\ call.ok /\ first(Uncached(grammar), call.arg).ok) =>
           call.val = first(Uncached(grammar), call.arg).val
    /\ (call.op = "follow" /\ call.ok /\ follow(Uncached(grammar), call.arg).ok) =>
           call.val = follow(Uncached(grammar), call.arg).val

(***************************************************************************)
(* automaton.rs: Automaton::new, one iteration of its loops at a time,     *)
(* then action_table.  call is [op, rule, a, entry, d, table]: a is the    *)
(* construction, entry the <<state, symbol>> popped from its queue, d the  *)
(* state of the derive call in progress, table the result of action_table. *)
(***************************************************************************)
\* The "actions" tables of the grammar files: none, or one preference for
\* every terminal.
Preferences(defs) ==
    LET terminals == UNION {Range(defs[i][2]) : i \in 1..Len(defs)}
                         \ {defs[i][1] : i \in 1..Len(defs)}
    IN {EmptyMap, [n \in terminals |-> "shift"], [n \in terminals |-> "reduce"]}

At(op, rule, a, entry, d, table) ==
    [op |-> op, rule |-> rule, a |-> a, entry |-> entry, d |-> d, table |-> table]

AutomatonInit ==
    /\ source \in Sources
    /\ \E actions \in Preferences(source.defs) :
           grammar = read_file(source.start, source.defs, actions)
    /\ Ok \in verify(grammar)
    /\ verified = Ok
    /\ phase = "automaton"
    /\ tokens = <<>>
    /\ ll = Idle
    /\ lr = Idle
    /\ lllr = Idle
    /\ call = At("new", 0, None, None, None, None)

\* The first wrapper get_lllr_parsing_tables tries: the first conflicting
\* symbol of the first rule whose head has no conflict, wrapped alone.
WrapConflict ==
    /\ phase = "automaton" /\ call.op = "new"
    /\ \E t \in {get_ll_parsing_table(grammar, {})} :
       /\ t.ok /\ ~t.is_ok
       /\ LET conflicts == Range(t.conflicts)
              at == {p \in {<<i, idx>> : i \in 1..Len(grammar.rules), idx \in 0..MaxTokens} :
                        /\ grammar.rules[p[1]].head \notin conflicts
                        /\ p[2] < Len(grammar.rules[p[1]].body)
                        /\ grammar.rules[p[1]].body[p[2] + 1] \in conflicts}
          IN /\ at # {}
             /\ LET i == Min({p[1] : p \in at})
                    idx == Min({p[2] : p \in {q \in at : q[1] = i}})
                    tail == Rule_tail(grammar.rules[i], idx)
                IN \E ff \in {first_follow(t.g, Tail(tail), grammar.rules[i].head)} :
                   /\ ff.ok
                   /\ \E w \in {wrap_symbols(ff.g, <<Head(tail)>>, to_sorted_vec(ff.val))} :
                      /\ ~w.crash
                      /\ grammar' = w.g
                      /\ call' = At("wrap_symbols", w.rule, None, None, None, None)
    /\ UNCHANGED <<source, verified, phase, tokens, ll, lr, lllr>>

NewAutomaton ==
    /\ phase = "automaton" /\ call.op \in {"new", "wrap_symbols"}
    /\ call' = At("loop", call.rule, Automaton_initial(grammar, call.rule), None, None, None)
    /\ UNCHANGED <<source, grammar, verified, phase, tokens, ll, lr, lllr>>

\* An entry is popped and derive starts: the kernel of the next state.
DeriveKernel ==
    /\ phase = "automaton" /\ call.op = "loop" /\ call.a.queue # <<>>
    /\ LET entry == Head(call.a.queue)
           a == [call.a EXCEPT !.queue = Tail(@)]
       IN \E k \in {derive_kernel(a.states[entry[1] + 1], entry[2], a.g, a.items,
                                  Len(a.states))} :
          call' = IF k.next_items = <<>>
                  THEN At("panic", call.rule, a, entry, None, None)
                  ELSE At("derive", call.rule, a, entry, k, None)
    /\ UNCHANGED <<source, grammar, verified, phase, tokens, ll, lr, lllr>>

\* An iteration of the closure loop of derive.
DeriveItem ==
    /\ phase = "automaton" /\ call.op = "derive" /\ call.d.queue # <<>>
    /\ \E d \in {derive_item([call.d EXCEPT !.queue = Tail(@)], Head(call.d.queue),
                             Len(call.a.states))} :
       call' = IF ~d.ok \/ d.crash THEN [call EXCEPT !.op = "panic", !.d = d]
               ELSE [call EXCEPT !.d = d]
    /\ UNCHANGED <<source, grammar, verified, phase, tokens, ll, lr, lllr>>

\* derive returns and the loop of Automaton::new takes its result.
DeriveReturn ==
    /\ phase = "automaton" /\ call.op = "derive" /\ call.d.queue = <<>>
    /\ \E r \in {derive_finish(call.a.states[call.entry[1] + 1], call.d, call.a.items,
                               Len(call.a.states))} :
       call' = At("loop", call.rule, automaton_insert(call.a, call.entry, r),
                  None, None, None)
    /\ UNCHANGED <<source, grammar, verified, phase, tokens, ll, lr, lllr>>

ActionTable ==
    /\ phase = "automaton" /\ call.op = "loop" /\ call.a.queue = <<>>
    /\ call' = [call EXCEPT !.op = "action_table", !.table = action_table(call.a)]
    /\ UNCHANGED <<source, grammar, verified, phase, tokens, ll, lr, lllr>>

\* Automaton::data goes on after action_table: the LEFT and BACKTRACK
\* tables, kept in d as [left, backtrack].
DataTables ==
    /\ phase = "automaton" /\ call.op = "action_table" /\ call.table.is_ok
    /\ call' = [call EXCEPT !.op = "data",
                            !.d = [left |-> left_table(call.a),
                                   backtrack |-> backtrack_table(call.a)]]
    /\ UNCHANGED <<source, grammar, verified, phase, tokens, ll, lr, lllr>>

AutomatonNext ==
    \/ WrapConflict
    \/ NewAutomaton
    \/ DeriveKernel
    \/ DeriveItem
    \/ DeriveReturn
    \/ ActionTable
    \/ DataTables

AutomatonSpec == AutomatonInit /\ [][AutomatonNext]_vars

\* The states where a step of the construction can be taken.
Running ==
    \/ call.op \in {"new", "wrap_symbols", "loop", "derive"}
    \/ call.op = "action_table" /\ call.table.is_ok

\* The construction is a loop of one thread: a step that can be taken is
\* taken.  This is WF_vars(AutomatonNext), with Running written for
\* ENABLED <<AutomatonNext>>_vars.
AutomatonLive ==
    AutomatonSpec /\ ([]<>(~Running) \/ []<><<AutomatonNext>>_vars)

(***************************************************************************)
(* The ACTION table, stated on the items of the states.                    *)
(***************************************************************************)
\* The accept and reduce actions of state s (read at s + 1) on symbol x,
\* in the order of the items of the state.
Landing(a, s, x) ==
    LET items == a.states[s + 1].items
        item(i) == a.items[items[i] + 1]
        on == SelectSeq([i \in 1..Len(items) |-> i],
                        LAMBDA i : /\ item(i).lookahead = x
                                   /\ \/ can_accept(item(i), a.start_rule)
                                      \/ can_reduce(item(i), a.start_rule))
    IN [k \in 1..Len(on) |->
           IF can_accept(item(on[k]), a.start_rule) THEN Accept(item(on[k]).rule)
           ELSE Reduce(item(on[k]).rule)]

\* The entries that claim the cell: the shift, then the accepts and reduces.
Claimants(a, key) ==
    (IF key \in DOMAIN shift_table(a) THEN <<shift_table(a)[key]>> ELSE <<>>)
        \o Landing(a, key[1], key[2])

\* The cells an accept or reduce lands on while they hold an entry.
Collisions(a) ==
    {key \in (0..(Len(a.states) - 1)) \X (0..(Len(a.g.symbols) - 1)) :
        Landing(a, key[1], key[2]) # <<>> /\ Len(Claimants(a, key)) > 1}

Unpreferred(a) == {key \in Collisions(a) : key[2] \notin DOMAIN a.g.actions}

\* C16: action_table fails exactly when an accept or reduce lands on an
\* occupied cell whose symbol has no preference, with the state and the
\* symbol of such a cell; on a cell whose symbol has a preference, 'shift'
\* leaves the entry that was there first and 'reduce' leaves the action
\* that landed last.
C16_ActionConflict ==
    call.op = "action_table" =>
        /\ call.table.is_ok <=> Unpreferred(call.a) = {}
        /\ ~call.table.is_ok =>
               /\ <<call.table.state, call.table.symbol>> \in Unpreferred(call.a)
               /\ call.table.state = Min({key[1] : key \in Unpreferred(call.a)})
        /\ call.table.is_ok =>
               \A key \in Collisions(call.a) :
                   call.table.table[key] =
                       IF call.a.g.actions[key[2]] = "reduce"
                       THEN Last(Claimants(call.a, key))
                       ELSE Head(Claimants(call.a, key))

\* A reduce landed on a shift of a symbol without preference: the build
\* failed.
C16_Witness ==
    /\ call.op = "action_table"
    /\ ~call.table.is_ok
    /\ <<call.table.state, call.table.symbol>> \in DOMAIN shift_table(call.a)

\* With the preference 'reduce' a reduce has replaced a shift.
C16_WitnessReduce ==
    /\ call.op = "action_table"
    /\ call.table.is_ok
    /\ \E key \in Collisions(call.a) :
           /\ key \in DOMAIN shift_table(call.a)
           /\ call.a.g.actions[key[2]] = "reduce"
           /\ call.table.table[key].kind = "Reduce"

\* With the preference 'shift' a shift has stayed where a reduce landed.
C16_WitnessShift ==
    /\ call.op = "action_table"
    /\ call.table.is_ok
    /\ \E key \in Collisions(call.a) :
           /\ call.a.g.actions[key[2]] = "shift"
           /\ call.table.table[key].kind = "Shift"

\* C17: when an accepting item and a reducible item of a state land on the
\* same cell, action_table does not fail on that cell, and the table it
\* returns holds Accept there.
C17_AcceptOverReduce ==
    call.op = "action_table" =>
        \A key \in Collisions(call.a) :
            (\E i, j \in 1..Len(Landing(call.a, key[1], key[2])) :
                /\ Landing(call.a, key[1], key[2])[i].kind = "Accept"
                /\ Landing(call.a, key[1], key[2])[j].kind = "Reduce") =>
                /\ ~call.table.is_ok =>
                       <<call.table.state, call.table.symbol>> # key
                /\ call.table.is_ok => call.table.table[key].kind = "Accept"

(***************************************************************************)
(* The states and the transitions of the automaton.                        *)
(***************************************************************************)
\* The first <<state, symbol>>, in the order of the queue, that leads to
\* state id.
Discovery(a, id) ==
    LET into == {t \in a.state_transitions : t.to = id}
        from == Min({t.from : t \in into})
    IN <<from, Min({t.symbol : t \in {u \in into : u.from = from}})>>

Built == call.op = "action_table"

\* C18: in the automaton Automaton::new returns the state IDs are 0..n-1 in
\* the order of discovery, no two states have the same item list, a state
\* and a symbol have at most one transition, its target is the state with
\* the item list derive gives for them, and building again gives the same
\* states, items and transitions.
C18_Canonical ==
    Built =>
        LET a == call.a
            n == Len(a.states)
        IN /\ \A i \in 1..n : a.states[i].id = i - 1
           /\ \A i, j \in 1..n : a.states[i].items = a.states[j].items => i = j
           /\ \A t, u \in a.state_transitions :
                  (t.from = u.from /\ t.symbol = u.symbol) => t.to = u.to
           /\ \A t \in a.state_transitions :
                  /\ t.to \in 0..(n - 1)
                  /\ a.states[t.to + 1].items =
                         derive(a.states[t.from + 1], t.symbol, a.g, a.items, n).state.items
           /\ \A i, j \in 1..(n - 1) :
                  i < j => pair_less(Discovery(a, i), Discovery(a, j))
           /\ \A f \in {"states", "items", "state_transitions", "item_transitions"} :
                  Automaton_new(grammar, call.rule)[f] = a[f]

\* An automaton is built where a transition leads back to a state that
\* existed when it was derived.
C18_Witness ==
    /\ Built
    /\ Len(call.a.states) >= 4
    /\ \E t, u \in call.a.state_transitions :
           /\ t.to = u.to
           /\ pair_less(<<t.from, t.symbol>>, <<u.from, u.symbol>>)
           /\ u.to <= u.from

\* C19: from one iteration of the closure loop of derive to the next, an
\* item of the state being built that is not unique stays not unique.
C19_UniqueMonotone ==
    [][(call.op = "derive" /\ call'.op = "derive") =>
          \A i \in 1..Len(call.d.next_items) :
              ~call.d.next_items[i].unique => ~call'.d.next_items[i].unique]_vars

\* The kernel items are unique, an item of the closure has been marked
\* non-unique, and the closure loop has iterations left.
C19_Witness ==
    /\ call.op = "derive"
    /\ call.d.queue # <<>>
    /\ \A t \in call.d.transitions :
           t.from[1] = call.entry[1] => call.d.next_items[t.to[2] + 1].unique
    /\ \E i \in 1..Len(call.d.next_items) : ~call.d.next_items[i].unique

(***************************************************************************)
(* The rules with an empty body in the drivers.                            *)
(***************************************************************************)
IsEpsilon(g, rule) == Rule(g, rule).body = <<NullId>>

\* parse_ll is about to apply a rule with an empty body.
LLEpsilon ==
    /\ phase = "ll"
    /\ ll.c.input # <<>> /\ ll.c.stack # <<>>
    /\ <<Last(ll.c.stack), Head(ll.c.input)>> \in DOMAIN ll.table
    /\ IsEpsilon(ll.g, ll.table[<<Last(ll.c.stack), Head(ll.c.input)>>])

\* The cell of the ACTION table parse_lr reads next.
LRCell ==
    <<Last(lr.c.stack)[2], IF lr.c.input = <<>> THEN NullId ELSE Head(lr.c.input)>>

\* parse_lr is about to reduce a rule with an empty body.
LREpsilon ==
    /\ phase = "lr"
    /\ lr.c.stack # <<>>
    /\ LRCell \in DOMAIN lr.data.action_table
    /\ lr.data.action_table[LRCell].kind = "Reduce"
    /\ IsEpsilon(lr.g, lr.data.action_table[LRCell].arg)

\* C20: applying a rule with the body [Null] adds the rule to the rules and
\* leaves the input as it is; parse_ll pops the nonterminal and pushes
\* nothing, parse_lr pops nothing and pushes the head with the state
\* GOTO[state, head].
C20_EpsilonRule ==
    [][/\ LLEpsilon =>
              /\ ll'.pc = "run"
              /\ ll'.c.input = ll.c.input
              /\ ll'.c.stack = Pop(ll.c.stack)
              /\ ll'.c.rules =
                     Append(ll.c.rules, ll.table[<<Last(ll.c.stack), Head(ll.c.input)>>])
       /\ LREpsilon =>
              LET rule == Rule(lr.g, lr.data.action_table[LRCell].arg) IN
              /\ lr'.pc = "run"
              /\ lr'.c.input = lr.c.input
              /\ <<LRCell[1], rule.head>> \in DOMAIN lr.data.goto_table
              /\ lr'.c.stack =
                     Append(lr.c.stack,
                            <<rule.head, lr.data.goto_table[<<LRCell[1], rule.head>>]>>)
              /\ lr'.c.rules = Append(lr.c.rules, rule.id)]_vars

\* Both drivers have returned rules with a rule of empty body among them.
C20_Witness ==
    /\ ll.result.kind = "Ok"
    /\ lr.result.kind = "Ok"
    /\ tokens # <<>>
    /\ \E i \in 1..Len(ll.result.rules) : IsEpsilon(grammar, ll.result.rules[i])
    /\ \E i \in 1..Len(lr.result.rules) : IsEpsilon(grammar, lr.result.rules[i])

(***************************************************************************)
(* The drivers on an empty token sequence.                                 *)
(***************************************************************************)
\* The start symbol derives the empty string.
DerivesEmpty(g) == NullId \in ClassicalFirst(g)[g.start_symbol]

\* parse_ll has run on a table without conflicts and has returned.
LLRan == returned(ll) /\ "table" \in DOMAIN ll

\* parse_lr has run on tables without conflicts and has returned.
LRRan == returned(lr) /\ "data" \in DOMAIN lr

\* C21: on an empty token sequence parse_ll and parse_lr, run on tables
\* without conflicts, return Ok if the start symbol derives the empty string
\* and the error EOF if it does not.
C21_EmptyInput ==
    tokens = <<>> =>
        /\ LLRan => ll.result.kind = IF DerivesEmpty(grammar) THEN "Ok" ELSE "EOF"
        /\ LRRan => lr.result.kind = IF DerivesEmpty(grammar) THEN "Ok" ELSE "EOF"

\* Both drivers have accepted the empty token sequence.
C21_Witness ==
    /\ tokens = <<>> /\ LLRan /\ LRRan
    /\ DerivesEmpty(grammar)
    /\ ll.result.kind = "Ok" /\ lr.result.kind = "Ok"

\* Both drivers have returned EOF on the empty token sequence.
C21_WitnessEOF ==
    /\ tokens = <<>> /\ LLRan /\ LRRan
    /\ ~DerivesEmpty(grammar)
    /\ ll.result = ErrEOF /\ lr.result = ErrEOF

(***************************************************************************)
(* The errors of parse_ll.  ll.c is the configuration the loop was left    *)
(* with.                                                                   *)
(***************************************************************************)
\* s is what is left of the input after some tokens were taken from the front.
IsRest(s, input) ==
    Len(s) <= Len(input) /\ s = SubSeq(input, Len(input) - Len(s) + 1, Len(input))

\* C22: parse_ll, run on a table without conflicts, returns Parse(a) when it
\* stops on a stack that is not empty with a token a in front that is not
\* internal, a being the first token not consumed; it returns EOF when it
\* stops on a stack that is not empty with only End or nothing left; and it
\* returns Ok only with an empty stack and the whole input consumed.
C22_LLErrors ==
    LLRan =>
        /\ IsRest(ll.c.input, get_input(tokens))
        /\ (/\ ll.c.stack # <<>> /\ ll.c.input # <<>>
            /\ ~is_internal(Symbol(ll.g, Head(ll.c.input))))
               => /\ ll.result = ErrParse(Head(ll.c.input))
                  /\ <<Last(ll.c.stack), Head(ll.c.input)>> \notin DOMAIN ll.table
                  /\ Last(ll.c.stack) # Head(ll.c.input)
        /\ (ll.c.stack # <<>> /\ ll.c.input \in {<<>>, <<EndId>>})
               => ll.result = ErrEOF
        /\ ll.result.kind = "Ok" => (ll.c.stack = <<>> /\ ll.c.input = <<>>)
        /\ ll.result.kind \in {"Ok", "Parse", "EOF"}

\* parse_ll has returned Parse(a) for the second of three tokens.
C22_Witness ==
    /\ LLRan /\ Len(tokens) = 3
    /\ ll.result = ErrParse(tokens[2])
    /\ ll.c.input = <<tokens[2], tokens[3], EndId>>

\* parse_ll has returned EOF with the tokens consumed and symbols on the stack.
C22_WitnessEOF ==
    /\ LLRan /\ tokens # <<>>
    /\ ll.result = ErrEOF
    /\ ll.c.input = <<EndId>> /\ Len(ll.c.stack) >= 2

(***************************************************************************)
(* parse_lr as a function of its tables.  The tables are the ones of the   *)
(* automaton of the grammar, or differ from them in one entry: an entry of *)
(* GOTO is missing, or a Reduce entry of ACTION names another rule or is   *)
(* an Accept.                                                              *)
(***************************************************************************)
\* The entries a Reduce entry is replaced by; a rule with an empty body is
\* not put in, so that every run of the driver ends.
OtherActions(g, action) ==
    {Reduce(r - 1) : r \in {r \in 1..Len(g.rules) :
                               g.rules[r].body # <<NullId>> /\ r - 1 # action.arg}}
        \cup {Accept(r - 1) : r \in 1..Len(g.rules)}

NearData(g, data) ==
    {data}
        \cup {[data EXCEPT !.goto_table = [k \in DOMAIN @ \ {key} |-> @[k]]] :
                 key \in DOMAIN data.goto_table}
        \cup UNION {{[data EXCEPT !.action_table = [@ EXCEPT ![key] = action]] :
                        action \in OtherActions(g, data.action_table[key])} :
                    key \in {k \in DOMAIN data.action_table :
                                data.action_table[k].kind = "Reduce"}}

LRInit ==
    /\ source \in {src \in Catalog : Len(src.defs) <= 4}
    /\ grammar = read_file(source.start, source.defs, EmptyMap)
    /\ Ok \in verify(grammar)
    /\ verified = Ok
    /\ tokens \in Inputs(source, grammar)
    /\ \E d \in {Automaton_data(Automaton_new(grammar, 0))} :
          /\ d.ok /\ ~d.crash /\ d.is_ok
          /\ \E data \in NearData(grammar, d.data) :
                /\ lr = Start([Idle EXCEPT !.pc = "ready"]
                                  @@ [g |-> d.data.grammar, data |-> data],
                              [input |-> get_input(tokens),
                               stack |-> << <<StartId, 0>> >>, rules |-> <<>>])
                /\ call = [op |-> "parse_lr",
                            changed |-> IF data = d.data THEN "none"
                                        ELSE IF data.goto_table # d.data.goto_table
                                        THEN "goto_table" ELSE "action_table"]
    /\ ll = Idle
    /\ lllr = Idle
    /\ phase = "lr"

LRSpec == LRInit /\ [][ParseLR]_vars

\* The entry of ACTION parse_lr reads next, None when there is none.
LRAction ==
    IF LRCell \in DOMAIN lr.data.action_table THEN lr.data.action_table[LRCell] ELSE None

\* The top of the stack holds the symbols, Null left out, in order.
OnTop(stack, symbols) ==
    LET b == SelectSeq(symbols, LAMBDA s : s # NullId) IN
    /\ Len(b) <= Len(stack)
    /\ \A i \in 1..Len(b) : stack[Len(stack) - Len(b) + i][1] = b[i]

\* The state exposed by popping the symbols.
Exposed(stack, symbols) ==
    stack[Len(stack) - Len(SelectSeq(symbols, LAMBDA s : s # NullId))][2]

\* C23: parse_lr returns Parse(t) when ACTION has no entry for the state on
\* top and the front token t, t not internal, and EOF when it has none and
\* the front is End or the input is exhausted; it returns Internal when the
\* stack does not hold the symbols a reduction pops, when GOTO has no entry
\* for the exposed state and the head, and when the stack is not empty after
\* the reduction of Accept; it returns Ok only with the input exhausted.
C23_LRErrors ==
    [][(phase = "lr" /\ lr.c.stack # <<>>) =>
          LET front == lr.c.input
              rule == Rule(lr.g, LRAction.arg)
              whole == <<rule.head>> \o rule.body
          IN /\ (/\ LRAction.kind = "None" /\ front # <<>>
                 /\ ~is_internal(Symbol(lr.g, Head(front))))
                    => lr'.result = ErrParse(Head(front))
             /\ (LRAction.kind = "None" /\ (front = <<>> \/ Head(front) = EndId))
                    => lr'.result = ErrEOF
             /\ (LRAction.kind = "Reduce" /\ ~OnTop(lr.c.stack, rule.body))
                    => lr'.result = ErrInternal
             /\ (/\ LRAction.kind = "Reduce" /\ OnTop(lr.c.stack, rule.body)
                 /\ <<Exposed(lr.c.stack, rule.body), rule.head>>
                        \notin DOMAIN lr.data.goto_table)
                    => lr'.result = ErrInternal
             /\ (LRAction.kind = "Accept" /\ ~OnTop(lr.c.stack, whole))
                    => lr'.result = ErrInternal
             /\ (/\ LRAction.kind = "Accept" /\ OnTop(lr.c.stack, whole)
                 /\ Len(lr.c.stack) > Len(SelectSeq(whole, LAMBDA s : s # NullId)))
                    => lr'.result = ErrInternal
             /\ lr'.result.kind = "Ok" => (front = <<>> /\ LRAction.kind = "Accept")
             /\ lr'.result.kind \in {"None", "Ok", "Parse", "EOF", "Internal"}]_vars

\* parse_lr has returned Parse(t) for a token that is not the first.
C23_Witness ==
    /\ LRRan /\ call.changed = "none" /\ Len(tokens) >= 2
    /\ lr.c.input # <<>> /\ Len(lr.c.input) <= Len(tokens)
    /\ lr.result = ErrParse(Head(lr.c.input))

\* parse_lr has returned EOF with every token shifted.
C23_WitnessEOF ==
    /\ LRRan /\ call.changed = "none" /\ tokens # <<>>
    /\ lr.c.input = <<EndId>> /\ lr.result = ErrEOF

\* parse_lr has returned Internal where GOTO has no entry.
C23_WitnessGoto ==
    /\ LRRan /\ call.changed = "goto_table" /\ lr.result = ErrInternal

\* The symbols on the stack before the last step of parse_lr.
LRBefore == Last(lr.steps)[2]

\* parse_lr has returned Internal after popping a symbol that is not the
\* one of the body: the stack lost some symbols of the body of a rule with
\* a Reduce entry and one that is not the next of the body.
C23_WitnessPop ==
    /\ LRRan /\ call.changed = "action_table" /\ lr.result = ErrInternal
    /\ \E key \in DOMAIN lr.data.action_table :
          LET action == lr.data.action_table[key]
              b == SelectSeq(Rule(lr.g, action.arg).body, LAMBDA s : s # NullId)
              popped == Len(LRBefore) - Len(lr.c.stack)
          IN /\ action.kind = "Reduce"
             /\ popped \in 1..Len(b)
             /\ SubSeq(LRBefore, Len(lr.c.stack) + 2, Len(LRBefore))
                    = SubSeq(b, Len(b) - popped + 2, Len(b))
             /\ LRBefore[Len(lr.c.stack) + 1] # b[Len(b) - popped + 1]

\* parse_lr has returned Internal with symbols left after an Accept: the
\* stack lost the head and the body of the rule and is not empty.
C23_WitnessAccept ==
    /\ LRRan /\ call.changed = "action_table" /\ lr.result = ErrInternal
    /\ lr.c.stack # <<>>
    /\ \E key \in DOMAIN lr.data.action_table :
          LET action == lr.data.action_table[key]
              rule == Rule(lr.g, action.arg)
          IN /\ action.kind = "Accept" /\ action.arg # 0
             /\ LRBefore = symbols_of(lr.c.stack) \o <<rule.head>>
                               \o SelectSeq(rule.body, LAMBDA s : s # NullId)

\* parse_lr has returned Ok.
C23_WitnessOk == LRRan /\ lr.result.kind = "Ok" /\ tokens # <<>>

(***************************************************************************)
(* lexer.rs: get_tokens; grammar.rs: find_symbol.  A text is a sequence of *)
(* characters.  A matcher is [symbol, words]: a text that is one of the    *)
(* words is a full match, a proper prefix of a word is a partial match.    *)
(* A token is [symbol, lexeme]; spans are left out.                        *)
(***************************************************************************)
IsPrefix(s, t) == Len(s) <= Len(t) /\ s = SubSeq(t, 1, Len(s))

match_str(matcher, text) ==
    IF text \in matcher.words THEN "Full"
    ELSE IF \E w \in matcher.words : IsPrefix(text, w) THEN "Partial"
    ELSE "None"

NoMatch == [kind |-> "None"]

\* The first full match if there is one, otherwise the first partial match.
find_symbol(matchers, text) ==
    LET full == {i \in 1..Len(matchers) : match_str(matchers[i], text) = "Full"}
        some == {i \in 1..Len(matchers) : match_str(matchers[i], text) # "None"}
    IN IF full # {} THEN [kind |-> "Some", id |-> matchers[Min(full)].symbol, full |-> TRUE]
       ELSE IF some # {}
       THEN [kind |-> "Some", id |-> matchers[Min(some)].symbol, full |-> FALSE]
       ELSE NoMatch

Token_new(symbol, lexeme) == [symbol |-> symbol, lexeme |-> lexeme]

ErrToken(text) == [kind |-> "Token", text |-> text]
OkTokens(toks) == [kind |-> "Ok", tokens |-> toks]

\* One iteration of the loop of get_tokens:
\* c = [source, idx, text, last_match, tokens].
get_tokens_loop(matchers, c) ==
    LET text == Append(c.text, c.source[c.idx + 1])
        current_match == find_symbol(matchers, text)
    IN IF current_match = NoMatch /\ c.last_match = NoMatch
       THEN Return(ErrToken(text), [c EXCEPT !.text = text])
       ELSE IF current_match = NoMatch
       THEN Go([c EXCEPT !.tokens = IF c.last_match.token.symbol # NullId
                                    THEN Append(@, c.last_match.token) ELSE @,
                         !.idx = c.last_match.idx + 1,
                         !.text = <<>>,
                         !.last_match = NoMatch])
       ELSE Go([c EXCEPT !.text = text,
                         !.last_match = IF current_match.full
                                        THEN [kind |-> "Some", idx |-> c.idx,
                                              token |-> Token_new(current_match.id, text)]
                                        ELSE @,
                         !.idx = @ + 1])

\* get_tokens after the loop.
get_tokens_end(c) ==
    IF c.last_match = NoMatch THEN ErrToken(c.text) ELSE OkTokens(c.tokens)

(***************************************************************************)
(* The runs of the lexer.  The matchers are the ones read_file makes: one  *)
(* for each terminal, its name the only word, in the order of the symbol   *)
(* IDs, then one with the symbol Null for each entry of "ignore".          *)
(***************************************************************************)
MaxChars == 4

Chars == {"a", "b", " "}

\* The terminals a, b and abb and their IDs as read from S -> a | b | abb.
LexTerminals ==
    << [symbol |-> 4, words |-> {<<"a">>}],
       [symbol |-> 5, words |-> {<<"b">>}],
       [symbol |-> 6, words |-> {<<"a", "b", "b">>}] >>

\* The "ignore" tables: blanks, or blanks and a word that is also a terminal.
LexIgnored ==
    { << [symbol |-> NullId, words |-> {<<" ">>, <<" ", " ">>}] >>,
      << [symbol |-> NullId, words |-> {<<" ">>}],
         [symbol |-> NullId, words |-> {<<"b">>, <<"b", "a">>}] >> }

LexInit ==
    /\ source = Source("S", << <<"S", <<"a">> >>, <<"S", <<"b">> >>,
                               <<"S", <<"abb">> >> >>, {})
    /\ grammar = read_file(source.start, source.defs, EmptyMap)
    /\ verified = None
    /\ phase = "get_tokens"
    /\ tokens = <<>>
    /\ ll = Idle
    /\ lr = Idle
    /\ lllr = Idle
    /\ \E ignored \in LexIgnored, text \in SeqsUpTo(Chars, MaxChars) :
          call = [op |-> "get_tokens", matchers |-> LexTerminals \o ignored,
                  result |-> None,
                  c |-> [source |-> text, idx |-> 0, text |-> <<>>,
                         last_match |-> NoMatch, tokens |-> <<>>]]

GetTokensLoop ==
    /\ phase = "get_tokens"
    /\ call.result = None
    /\ call.c.idx < Len(call.c.source)
    /\ \E r \in {get_tokens_loop(call.matchers, call.c)} :
          call' = [call EXCEPT !.c = r.c, !.result = r.result]
    /\ UNCHANGED <<source, grammar, verified, phase, tokens, ll, lr, lllr>>

GetTokensEnd ==
    /\ phase = "get_tokens"
    /\ call.result = None
    /\ call.c.idx >= Len(call.c.source)
    /\ call' = [call EXCEPT !.result = get_tokens_end(call.c)]
    /\ UNCHANGED <<source, grammar, verified, phase, tokens, ll, lr, lllr>>

LexNext ==
    \/ GetTokensLoop
    \/ GetTokensEnd

LexSpec == LexInit /\ [][LexNext]_vars

(***************************************************************************)
(* The tokens of a text by longest full match.                             *)
(***************************************************************************)
\* The lengths of the full matches that start after position p.
FullAt(matchers, text, p) ==
    {n \in 1..(Len(text) - p) :
        \E i \in 1..Len(matchers) : SubSeq(text, p + 1, p + n) \in matchers[i].words}

Max(S) == CHOOSE x \in S : \A y \in S : y <= x

\* The tokens from position p on: [ok, tokens]; ok is FALSE when some
\* character belongs to no match.
RECURSIVE Munch(_, _, _)
Munch(matchers, text, p) ==
    IF p = Len(text) THEN [ok |-> TRUE, tokens |-> <<>>]
    ELSE IF FullAt(matchers, text, p) = {} THEN [ok |-> FALSE, tokens |-> <<>>]
    ELSE LET n == Max(FullAt(matchers, text, p))
             lexeme == SubSeq(text, p + 1, p + n)
             first_declared == Min({i \in 1..Len(matchers) : lexeme \in matchers[i].words})
             rest == Munch(matchers, text, p + n)
         IN [ok |-> rest.ok,
             tokens |-> IF matchers[first_declared].symbol = NullId THEN rest.tokens
                        ELSE <<Token_new(matchers[first_declared].symbol, lexeme)>>
                                 \o rest.tokens]

\* C24: when get_tokens returns Ok, every character of the text belongs to
\* one longest full match, and the tokens returned are those matches in
\* order, the last one too, each with the symbol of the first matcher that
\* fully matches it, without the ones whose symbol is Null.
C24_LongestMatch ==
    (call.op = "get_tokens" /\ call.result.kind = "Ok") =>
        /\ Munch(call.matchers, call.c.source, 0).ok
        /\ call.result.tokens = Munch(call.matchers, call.c.source, 0).tokens

\* The same for the tokens pushed while the text is scanned: after a match
\* is taken, the tokens are those of the text up to the end of that match.
C24_Scanned ==
    (call.op = "get_tokens" /\ call.result = None /\ call.c.text = <<>>) =>
        LET m == Munch(call.matchers, SubSeq(call.c.source, 1, call.c.idx), 0) IN
        m.ok /\ call.c.tokens = m.tokens

(***************************************************************************)
(* The body positions for which get_lllr_parsing_tables finds no wrapper.  *)
(***************************************************************************)
\* The heads added to the conflicts while wrappers are looked for: a head
\* is added exactly when no wrapper is valid at a position of one of its
\* rules.
Unwrapped(g) ==
    get_lllr_parsing_tables(g).all_conflicts
        \ Range(get_ll_parsing_table(g, {}).conflicts)

\* C25: when no wrapper can be built for a position of a rule, parse_lllr
\* returns an error that names a symbol, and does not drive the input.
C25_NoWrapperError ==
    (phase = "lex" /\ verified = Ok /\ Unwrapped(grammar) # {}) =>
        /\ lllr.pc = "done"
        /\ "symbol" \in DOMAIN lllr.result

(***************************************************************************)
(* The uniqueness of the items when derive returns.                        *)
(***************************************************************************)
\* The closure loop of derive has ended and derive is about to return.
DeriveDone == call.op = "derive" /\ call.d.queue = <<>>

\* The temporary ids of the closure items of the state derive is building:
\* the items that are not the target of a transition from the old state.
ClosureIds(d, self_id) ==
    (0..(Len(d.next_items) - 1)) \ {t.to[2] : t \in {u \in d.transitions : u.from[1] = self_id}}

\* The item transitions inside the state being built that enter item id.
Entering(d, state_id, id) ==
    {t \in d.transitions : t.from[1] = state_id /\ t.to = <<state_id, id>>}

\* C26: when derive returns, a closure item of the new state that is flagged
\* unique has no item transition from itself to itself, and the sources of
\* the item transitions that enter it inside the state are all unique and
\* have one and the same rule and dot.
C26_UniqueClosed ==
    DeriveDone =>
        LET d == call.d
            state_id == Len(call.a.states)
        IN \A id \in ClosureIds(d, call.entry[1]) :
               d.next_items[id + 1].unique =>
                   /\ \A t \in Entering(d, state_id, id) :
                          /\ t.from[2] # id
                          /\ d.next_items[t.from[2] + 1].unique
                   /\ \A t, u \in Entering(d, state_id, id) :
                          /\ d.next_items[t.from[2] + 1].rule = d.next_items[u.from[2] + 1].rule
                          /\ d.next_items[t.from[2] + 1].dot = d.next_items[u.from[2] + 1].dot

\* The first half alone: a closure item flagged unique has no item
\* transition from itself to itself.
C26_NotSelfDerived ==
    DeriveDone =>
        \A id \in ClosureIds(call.d, call.entry[1]) :
            call.d.next_items[id + 1].unique =>
                \A t \in Entering(call.d, Len(call.a.states), id) : t.from[2] # id

(***************************************************************************)
(* The items of a state, compared without the unique flag.                 *)
(***************************************************************************)
Item_core(item) == <<item.rule, item.dot, item.lookahead>>

\* No two positions of the list hold items that agree on rule, dot and
\* lookahead.
NoTwins(items) ==
    \A i, j \in 1..Len(items) : Item_core(items[i]) = Item_core(items[j]) => i = j

StateItems(a, state) == [i \in 1..Len(state.items) |-> a.items[state.items[i] + 1]]

\* The candidates of the iteration of the closure loop that pops item id:
\* one for every rule of the head and every lookahead.
Candidates(d, id) ==
    LET item == d.next_items[id + 1]
        rules == Rules(d.g, item.head)
    IN {Item_core(Item_new(0, rules[k], la, item.unique)) :
            k \in 1..Len(rules),
            la \in first_sequence(d.g, Item_tail(item, Rule(d.g, item.rule))).val}

Cores(items) == {Item_core(items[i]) : i \in 1..Len(items)}

\* C27: no state of the automaton, the initial state included, and no state
\* derive is building holds two items with the same rule, dot and lookahead;
\* an iteration of the closure loop adds one item for every candidate that
\* no item equals up to the unique flag, and for every other candidate only
\* the item transition to the item that equals it.
C27_NoTwins ==
    /\ [](call.op \in {"loop", "derive", "action_table"} =>
             \A i \in 1..Len(call.a.states) : NoTwins(StateItems(call.a, call.a.states[i])))
    /\ [](call.op = "derive" => NoTwins(call.d.next_items))
    /\ [][(call.op = "derive" /\ call.d.queue # <<>> /\ call'.op = "derive") =>
             LET id == Head(call.d.queue)
                 state_id == Len(call.a.states)
                 old == call.d.next_items
                 new == call'.d.next_items
             IN /\ Cores(new) = Cores(old) \cup Candidates(call.d, id)
                /\ Len(new) = Len(old) + Cardinality(Candidates(call.d, id) \ Cores(old))
                /\ \A k \in 1..Len(old) :
                       Item_core(old[k]) \in Candidates(call.d, id) =>
                           Transition_new(<<state_id, id>>, <<state_id, k - 1>>, NullId)
                               \in call'.d.transitions]_vars

\* derive has a unique item that derives an item made before it, and that
\* item is not unique.
C27_Witness ==
    /\ call.op = "derive"
    /\ \E t \in call.d.transitions :
           /\ t.from[1] = Len(call.a.states)
           /\ t.to[2] < t.from[2]
           /\ call.d.next_items[t.from[2] + 1].unique
           /\ ~call.d.next_items[t.to[2] + 1].unique

(***************************************************************************)
(* The LEFT table, stated on the items of the states.                      *)
(***************************************************************************)
\* The classical FIRST sets, a symbol that is not a nonterminal standing
\* for itself.
SymbolFirst(g) ==
    [s \in 0..(Len(g.symbols) - 1) |->
        IF is_nonterminal(Symbol(g, s)) THEN ClassicalFirst(g)[s] ELSE {s}]

\* The items of state q for which s is in FIRST of the symbols from the dot
\* onward followed by the lookahead.
LeftCandidates(a, F, q, s) ==
    {id \in Range(a.states[q + 1].items) :
        s \in SeqFirst(F, Item_follow(a.items[id + 1], Rule(a.g, a.items[id + 1].rule)), 1)}

\* C28: the LEFT table has the cell (q, s) exactly when one item only of
\* state q has s in FIRST of its symbols from the dot onward followed by its
\* lookahead and that item is unique, and the cell then holds that item.
C28_LeftTable ==
    (call.op = "data" /\ call.d.left.ok) =>
        \E F \in {SymbolFirst(call.a.g)} :
            \A q \in 0..(Len(call.a.states) - 1) : \A s \in 0..(Len(call.a.g.symbols) - 1) :
                LET cands == LeftCandidates(call.a, F, q, s)
                    kept == Cardinality(cands) = 1
                                /\ \A id \in cands : call.a.items[id + 1].unique
                IN /\ <<q, s>> \in DOMAIN call.d.left.table <=> kept
                   /\ kept => call.d.left.table[<<q, s>>] \in cands

\* The table has a cell, a state has a symbol with two candidates, and a
\* state has a symbol whose only candidate is not unique.
C28_Witness ==
    /\ call.op = "data" /\ call.d.left.ok
    /\ DOMAIN call.d.left.table # {}
    /\ \E F \in {SymbolFirst(call.a.g)} :
           \E q \in 0..(Len(call.a.states) - 1) : \E s \in 0..(Len(call.a.g.symbols) - 1) :
               Cardinality(LeftCandidates(call.a, F, q, s)) >= 2
    /\ \E F \in {SymbolFirst(call.a.g)} :
           \E q \in 0..(Len(call.a.states) - 1) : \E s \in 0..(Len(call.a.g.symbols) - 1) :
               /\ Cardinality(LeftCandidates(call.a, F, q, s)) = 1
               /\ \A id \in LeftCandidates(call.a, F, q, s) : ~call.a.items[id + 1].unique

(***************************************************************************)
(* The BACKTRACK table, stated on the item transitions.                    *)
(***************************************************************************)
\* The item transitions of the automaton whose target item is unique.
UniqueTarget(a) == {t \in a.item_transitions : a.items[t.to[2] + 1].unique}

\* C29: the BACKTRACK table holds BACKTRACK[to] = from for every item
\* transition from -> to whose target item is unique, and no other entry.
C29_BacktrackInverse ==
    call.op = "data" =>
        /\ \A t \in UniqueTarget(call.a) :
               /\ t.to \in DOMAIN call.d.backtrack
               /\ call.d.backtrack[t.to] = t.from
        /\ \A to \in DOMAIN call.d.backtrack :
               \E t \in UniqueTarget(call.a) : t.to = to /\ t.from = call.d.backtrack[to]

\* What the table holds: one entry for every unique target of an item
\* transition, with the least of the sources of the transitions that enter
\* it.
C29_BacktrackLeast ==
    call.op = "data" =>
        /\ DOMAIN call.d.backtrack = {t.to : t \in UniqueTarget(call.a)}
        /\ \A to \in DOMAIN call.d.backtrack :
               /\ \E t \in UniqueTarget(call.a) : t.to = to /\ t.from = call.d.backtrack[to]
               /\ \A t \in UniqueTarget(call.a) :
                      t.to = to => (t.from = call.d.backtrack[to]
                                       \/ pair_less(call.d.backtrack[to], t.from))

(***************************************************************************)
(* wrap_symbols called again with the symbols it has wrapped.              *)
(***************************************************************************)
\* C30: after wrap_symbols has returned a rule for a sequence of symbols, a
\* call with the same sequence returns that rule and adds no symbol and no
\* rule to the grammar.
C30_WrapIdempotent ==
    call.op = "wrap_symbols" =>
        \E w \in {wrap_symbols(grammar, call.arg, <<EndId>>)} :
            /\ ~w.crash
            /\ w.rule = call.val
            /\ w.g.symbols = grammar.symbols
            /\ w.g.rules = grammar.rules

\* The wrapper rules of a grammar: the rules after rule 0 whose body begins
\* with End.
WrapperRules(g) == {i \in 2..Len(g.rules) : g.rules[i].body[1] = EndId}

\* The same in parse_lllr: the grammar get_lllr_parsing_tables returns has
\* no two wrapper rules for one sequence of symbols.
C30_OneWrapper ==
    (phase = "lex" /\ verified = Ok /\ "g" \in DOMAIN lllr) =>
        \A i, j \in WrapperRules(lllr.g) :
            lllr.g.rules[i].body = lllr.g.rules[j].body => i = j

(***************************************************************************)
(* What a wrap_symbols call that creates a wrapper changes in the grammar. *)
(***************************************************************************)
\* The step is a call of wrap_symbols that has created a rule.
WrapCreates ==
    /\ call'.op = "wrap_symbols"
    /\ call'.calls = call.calls + 1
    /\ call'.val >= Len(grammar.rules)

\* C31: a wrap_symbols call that creates a wrapper appends one nonterminal
\* with the ID of the previous symbol count and one rule with the ID of the
\* previous rule count, the body End followed by the wrapped symbols and the
\* follow given; the rule is the only rule of the new head; the symbols,
\* rules and rules-by-head entries that existed are unchanged; afterwards
\* every symbol and rule has its position as ID and the rules-by-head index
\* lists exactly the rules of each head.
C31_WrapFrame ==
    [][WrapCreates =>
          LET n == Len(grammar.symbols)
              r == Len(grammar.rules)
          IN /\ call'.val = r
             /\ Len(grammar'.symbols) = n + 1
             /\ SubSeq(grammar'.symbols, 1, n) = grammar.symbols
             /\ grammar'.symbols[n + 1].kind = "NonTerminal"
             /\ Len(grammar'.rules) = r + 1
             /\ SubSeq(grammar'.rules, 1, r) = grammar.rules
             /\ grammar'.rules[r + 1] = Rule_new(r, n, <<EndId>> \o call'.arg, <<EndId>>)
             /\ n \notin DOMAIN grammar.symbol_rules
             /\ DOMAIN grammar'.symbol_rules = DOMAIN grammar.symbol_rules \cup {n}
             /\ grammar'.symbol_rules[n] = <<r>>
             /\ \A h \in DOMAIN grammar.symbol_rules :
                    grammar'.symbol_rules[h] = grammar.symbol_rules[h]
             /\ \A i \in 1..(n + 1) : grammar'.symbols[i].id = i - 1
             /\ \A i \in 1..(r + 1) : grammar'.rules[i].id = i - 1
             /\ grammar'.symbol_rules = symbol_rules_of(grammar'.rules)]_vars

\* wrap_symbols has wrapped two symbols in a rule it has added.
C31_Witness ==
    /\ call.op = "wrap_symbols"
    /\ Len(call.arg) >= 2
    /\ call.val = Len(grammar.rules) - 1
    /\ Rule(grammar, call.val).body = <<EndId>> \o call.arg

(***************************************************************************)
(* The worklist of Automaton::new.                                         *)
(***************************************************************************)
\* The step takes a pair from the worklist and starts its derivation.
TakesPair == call.op = "loop" /\ call'.op \in {"derive", "panic"}

\* The pairs derived so far: each has left a state transition.
DerivedPairs(a) == {<<t.from, t.symbol>> : t \in a.state_transitions}

\* The worklist is empty and Automaton::new has returned.
NewReturned == call.op \in {"action_table", "data"}

\* No pair is derived twice, and a pair taken from the worklist derives a
\* state with at least one item.
C32_Worklist ==
    [][TakesPair =>
          /\ call'.entry \notin DerivedPairs(call.a)
          /\ call'.op = "derive"
          /\ call'.d.next_items # <<>>]_vars

\* C32: Automaton::new terminates, its worklist empty after finitely many
\* derivations: at every point of the construction either a step of it can
\* be taken or it has returned; it is never left by a call that does not
\* return.
C32_NewTerminates == Running \/ NewReturned

\* What holds of the termination: the construction returns, or it ends in
\* a call of first_sequence that does not return.
C32_ReturnsOrOverflows ==
    <>(NewReturned \/ (call.op = "panic" /\ ~call.d.ok))

(***************************************************************************)
(* The wrappers and the conflict set get_lllr_parsing_tables ends with.    *)
(***************************************************************************)
\* get_lllr_parsing_tables has returned its tables.
LLLRBuilt == phase = "lex" /\ "table" \in DOMAIN lllr

\* Position p of rule id lies in the range of a recorded wrapper.
Covered(wrappers, id, p) ==
    \E k \in 1..Len(wrappers) :
        /\ wrappers[k][1] = id
        /\ wrappers[k][2] <= p
        /\ p < wrappers[k][2] + Len(wrappers[k][3])

\* C33: when the wrapper search has ended, no recorded wrapper belongs to a
\* rule whose head is in the conflict set; in a rule whose head is not in
\* the set every position of a conflicting symbol lies in a recorded
\* wrapper, and a position that no wrapper of another position covers has a
\* valid wrapper of its own; the LL table returned has no cell for a head
\* in the set.
C33_FixedPoint ==
    LLLRBuilt =>
        /\ \A k \in 1..Len(lllr.wrappers) :
               Rule(grammar, lllr.wrappers[k][1]).head \notin lllr.all_conflicts
        /\ \A i \in 1..Len(grammar.rules) :
               grammar.rules[i].head \notin lllr.all_conflicts =>
                   \A p \in 0..(Len(grammar.rules[i].body) - 1) :
                       grammar.rules[i].body[p + 1] \in lllr.all_conflicts =>
                           /\ Covered(lllr.wrappers, i - 1, p)
                           /\ (\A k \in 1..Len(lllr.wrappers) :
                                   (lllr.wrappers[k][1] = i - 1 /\ lllr.wrappers[k][2] < p) =>
                                       lllr.wrappers[k][2] + Len(lllr.wrappers[k][3]) <= p)
                                  => find_wrapper(grammar, grammar.rules[i], p, 1).valid
        /\ \A key \in DOMAIN lllr.table : key[1] \notin lllr.all_conflicts

\* The search has put a head into the conflict set for want of a wrapper,
\* and has recorded a wrapper for another rule.
C33_Witness ==
    /\ LLLRBuilt
    /\ verified = Ok
    /\ Unwrapped(grammar) # {}
    /\ lllr.wrappers # <<>>
    /\ DOMAIN lllr.table # {}

(***************************************************************************)
(* The early stop of the embedded LR parser of parse_lllr.                 *)
(***************************************************************************)
\* The embedded LR loop is about to run an iteration on a stack that is not
\* empty.
AtLRStep ==
    /\ phase = "lllr"
    /\ lllr.pc = "run"
    /\ lllr.c.mode = "lr"
    /\ lllr.c.lr_stack # <<>>

LRState == Last(lllr.c.lr_stack)[2]
LRToken == IF lllr.c.input = <<>> THEN NullId ELSE Head(lllr.c.input)

\* find_unique_rule returns a rule in this iteration.
EarlyStop ==
    /\ AtLRStep
    /\ find_unique_rule(lllr.g, lllr.tables[lllr.c.symbol], LRState, LRToken).kind = "Some"

\* The ACTION cell of this iteration is an Accept.
AcceptCell ==
    /\ AtLRStep
    /\ <<LRState, LRToken>> \in DOMAIN lllr.tables[lllr.c.symbol].action_table
    /\ lllr.tables[lllr.c.symbol].action_table[<<LRState, LRToken>>].kind = "Accept"

\* C34: in the embedded LR parse of a verified grammar the early stop does
\* not fire where the ACTION cell is an Accept, and does not fire on an
\* internal front token.
C34_EarlyStop ==
    (verified = Ok /\ EarlyStop) =>
        /\ ~AcceptCell
        /\ ~is_internal(Symbol(lllr.g, LRToken))

\* The second half of C34 alone: no early stop on an internal front token.
C34_NotInternal ==
    (verified = Ok /\ EarlyStop) => ~is_internal(Symbol(lllr.g, LRToken))

(***************************************************************************)
(* The order of the rules parse_lllr returns.                              *)
(***************************************************************************)
\* The grammar of parse_lllr with the leading End of the wrapper bodies
\* left out, as the embedded parser leaves it out when it reduces.
without_wrapper_end(g, tables) ==
    [g EXCEPT !.rules = [i \in 1..Len(g.rules) |->
        IF g.rules[i].head \in DOMAIN tables
        THEN [g.rules[i] EXCEPT !.body = Tail(@)] ELSE g.rules[i]]]

\* parse_lllr has returned rules and an embedded LR parse has contributed
\* some of them.
LLLRAccepted ==
    /\ verified = Ok
    /\ returned(lllr)
    /\ lllr.result.kind = "Ok"
    /\ \E i \in 1..Len(lllr.result.rules) :
           Rule(lllr.g, lllr.result.rules[i]).head \in DOMAIN lllr.tables

\* C35: the rules parse_lllr returns on an accepted input, those of the
\* embedded LR parses included, applied in order from the start symbol,
\* each on the leftmost nonterminal, give End, the tokens, End.
C35_LeftmostOrder ==
    LLLRAccepted =>
        is_leftmost_derivation(without_wrapper_end(lllr.g, lllr.tables),
                               lllr.result.rules, get_input(tokens))

(***************************************************************************)
(* The symbol verify names when several symbols have one fault.            *)
(***************************************************************************)
\* Of the heads in S, the one whose first rule has the least rule ID.
FirstByRule(g, S) ==
    CHOOSE h \in S : \A x \in S : g.symbol_rules[h][1] <= g.symbol_rules[x][1]

\* C36: when verify returns Unreachable or LeftRecursive, the symbol named
\* is, of the symbols with that fault, the one that comes first in rule-ID
\* order, whatever the iteration order of the map of rules by head.
C36_VerifyDeterministic ==
    verify_returned =>
        /\ verified.kind = "Unreachable" =>
               verified.symbol = FirstByRule(grammar, Unreachable(grammar))
        /\ verified.kind = "LeftRecursive" =>
               verified.symbol = FirstByRule(grammar, LeftRecursive(grammar))

(***************************************************************************)
(* The outer stack of parse_lllr across an embedded LR parse.              *)
(***************************************************************************)
\* An iteration of the embedded LR loop ends the embedded parse with
\* success: the outer loop goes on.
LRSucceeds ==
    /\ phase = "lllr"
    /\ lllr.pc = "run"
    /\ lllr.c.mode = "lr"
    /\ lllr'.pc = "run"
    /\ lllr'.c.mode = "ll"

\* The occurrence of the wrapper symbol on top of the outer stack is gone:
\* the stack below it is kept and what is above it are new symbols.
WrapperRemoved ==
    /\ lllr.c.stack # <<>>
    /\ Len(lllr'.c.stack) >= Len(lllr.c.stack) - 1
    /\ SubSeq(lllr'.c.stack, 1, Len(lllr.c.stack) - 1) = Pop(lllr.c.stack)
    /\ lllr'.c.stack # lllr.c.stack

\* C37: every embedded LR parse of a verified grammar that ends with
\* success, by the early stop or by Accept, takes the wrapper symbol it was
\* started for off the outer stack.
C37_WrapperRemoved ==
    [][(verified = Ok /\ LRSucceeds) => WrapperRemoved]_vars

\* The early stop alone takes the wrapper symbol off the outer stack.
C37_EarlyStopRemoves ==
    [][(verified = Ok /\ LRSucceeds /\ EarlyStop) => WrapperRemoved]_vars

(***************************************************************************)
(* The end of parse_lllr.                                                  *)
(***************************************************************************)
\* The run with the outer and the embedded loop of parse_lllr always going
\* on while they can: the process is not stopped in the middle of a parse.
ParseLive == Spec /\ WF_vars(ParseLLLR \/ ParseLLLR_LR)

\* The configuration the outer loop had when it started the embedded parse:
\* its input and the symbols of its stack.
LRStartedAt == Last(lllr.steps)

\* The embedded parse has taken no token off the input.
NoTokenTaken == lllr'.c.input = LRStartedAt[1]

\* C38: parse_lllr on a verified grammar returns for every token sequence,
\* its walk along the BACKTRACK table included; and an embedded LR parse
\* that ends with success does not leave the outer loop with the input and
\* the stack it had when the embedded parse started.
C38_Terminates ==
    /\ (verified = Ok /\ phase = "lllr") ~> (phase = "done")
    /\ []((verified = Ok /\ returned(lllr)) => lllr.result.kind # "Hang")
    /\ [][(verified = Ok /\ LRSucceeds) =>
              ~(NoTokenTaken /\ symbols_of(lllr'.c.stack) = LRStartedAt[2])]_vars

\* The last part of C38 alone: an embedded LR parse that ends with success
\* does not leave the outer loop with the input and the stack it had when
\* the embedded parse started.
C38_Progress ==
    [][(verified = Ok /\ LRSucceeds) =>
           ~(NoTokenTaken /\ symbols_of(lllr'.c.stack) = LRStartedAt[2])]_vars

\* The loops of parse_lllr themselves end: the run of a verified grammar
\* returns unless the walk of find_unique_rule does not.
C38_LoopsEnd ==
    (verified = Ok /\ phase = "lllr") ~> (phase = "done")

(***************************************************************************)
(* The walk of find_unique_rule along the BACKTRACK table.                 *)
(***************************************************************************)
\* The table sets Automaton::data has returned to the drivers.
DataSets ==
    (IF "data" \in DOMAIN lr THEN {lr.data} ELSE {})
        \cup (IF "tables" \in DOMAIN lllr
              THEN {lllr.tables[h] : h \in DOMAIN lllr.tables} ELSE {})

\* The walk from the item of a LEFT cell.
WalkFrom(data, key) ==
    LET from == <<key[1], data.left_table[key]>> IN
    IF from[2] \notin DOMAIN data.items THEN [kind |-> "Crash"]
    ELSE backtrack_walk(data.grammar, data, from, <<>>,
                        data.items[from[2]].rule, {})

\* The table sets find_unique_rule is called on: those of the wrappers.
EmbeddedSets ==
    IF "tables" \in DOMAIN lllr
    THEN {lllr.tables[h] : h \in DOMAIN lllr.tables} ELSE {}

\* C39: in every table set parse_lllr gets from Automaton::data for a
\* verified grammar, the walk from the item of any LEFT cell along the
\* BACKTRACK table ends, passing no pair of a state and an item twice, and
\* every item it meets is a key of the items of the table set.
C39_WalkEnds ==
    verified = Ok =>
        \A data \in EmbeddedSets : \A key \in DOMAIN data.left_table :
            WalkFrom(data, key).kind = "Some"

\* The last part of C39 alone, for all table sets: every item the walk
\* meets is a key of the items of the table set.
C39_ItemsKnown ==
    \A data \in DataSets : \A key \in DOMAIN data.left_table :
        WalkFrom(data, key).kind # "Crash"

(***************************************************************************)
(* The ranges of the wrappers get_lllr_parsing_tables applies.             *)
(***************************************************************************)
\* The wrappers recorded for rule id, in the order of the sorted list.
WrappersOf(wrappers, id) == SelectSeq(wrappers, LAMBDA w : w[1] = id)

\* No two wrappers of the list cover a common position.
DisjointRanges(ws) ==
    \A j, k \in 1..Len(ws) :
        j < k => \/ ws[j][2] + Len(ws[j][3]) <= ws[k][2]
                 \/ ws[k][2] + Len(ws[k][3]) <= ws[j][2]

\* The symbol of the wrapper rule of w in the grammar g.
WrapperSymbol(g, w) ==
    g.rules[CHOOSE i \in 1..Len(g.rules) :
                /\ g.rules[i].body = <<EndId>> \o w[3]
                /\ g.rules[i].follow = w[4]
                /\ g.rules[i].head >= Len(grammar.symbols)].head

\* The body with every range of ws, taken from position pos on, replaced
\* by the symbol of its wrapper.
RECURSIVE Replaced(_, _, _, _)
Replaced(g, body, ws, pos) ==
    IF ws = <<>> THEN SubSeq(body, pos + 1, Len(body))
    ELSE SubSeq(body, pos + 1, ws[1][2]) \o <<WrapperSymbol(g, ws[1])>>
             \o Replaced(g, body, Tail(ws), ws[1][2] + Len(ws[1][3]))

\* C40: the wrappers get_lllr_parsing_tables applies to one rule cover
\* pairwise disjoint ranges of its body, and in the grammar returned the
\* body of the rule is the body read, with each range replaced by the
\* symbol of its wrapper and the other symbols in their places.
C40_DisjointWrappers ==
    (LLLRBuilt /\ verified = Ok) =>
        \A i \in 1..Len(grammar.rules) :
            LET ws == WrappersOf(lllr.wrappers, i - 1) IN
            /\ DisjointRanges(ws)
            /\ lllr.g.rules[i].body = Replaced(lllr.g, grammar.rules[i].body, ws, 0)

====
